---- MODULE Spec2Model ----
(***************************************************************************)
(* VM-Management task queue: the Task Store of the API worker (KV and D1   *)
(* versions), the relay buffer of the consumer worker, and the polling     *)
(* loop of the local consumer, as one state machine.  Every `await` of a  *)
(* handler on a store is a step of its own, so handlers of different       *)
(* requests interleave the way the isolates of the workers do.             *)
(***************************************************************************)
EXTENDS Integers, Sequences, FiniteSets, TLC

\* ------------------------------------------------------------------ bounds
MaxTasks == 2
MaxSubmitted == 1
MaxWorkers == 2
MaxTicks == 1
MaxDeliveries == 2
MaxListed == 3
MaxLimit == 2
MaxEntries == 2

\* ------------------------------------------------------- program constants
ExpirationTtl == 3600
RetryDelay == 30
NoTime == 0
NoWorker == 0
NoValue == "null"
CancelMsg == "Task cancelled by user"
ExecError == "Request failed with status code 500"
TunnelError == "Could not find ingress section in tunnel config"
BaseDomain == "sandbox.puku.sh"
RestartError ==
  "Failed to restart tunnel service: Error: Command failed: sudo systemctl restart cloudflared"
FileError == "ENOENT: no such file or directory, open '/etc/cloudflared/config.yml'"

TaskIds == 1..MaxTasks
Workers == 1..MaxWorkers
ApiVersions == {"KV", "D1"}
TaskTypes == {"launch_vm", "delete_vm"}
TaskStatuses == {"pending", "processing", "completed", "failed"}
Terminal == {"completed", "failed"}
VmNames == {"demo-1"}

\* what a client may put in the body of POST /vm/tasks
TypeInputs == TaskTypes \cup {"stop_vm", NoValue}
NameInputs == VmNames \cup {NoValue}

VARIABLES
  apiVersion,  \* which version of the API worker is deployed: "KV" or "D1"
  now,         \* the clock, in seconds (Date.now())
  tasks,       \* Task Store: task id -> task record, for the ids stored
  sending,     \* create requests between the Task Store write and the queue send
  queue,       \* the messages sent to VM_TASK_QUEUE
  deliveries,  \* task id -> how often the queue delivered its message
  buffer,      \* TASK_BUFFER: a set of [key, val, exp]
  worker,      \* local consumer w -> its position and locals
  cancelReq,   \* task id -> the task a cancel handler read, between its read and write
  updReq,      \* the update-status request of a client, between its read and write (KV)
  resp,        \* the response a client of the API worker got in the last step, if any
  claimOk,     \* task id -> the consumers whose claim of it returned success
  executions,  \* task id -> how often executeTask was started for it (2: more than once)
  vms,         \* the vms table of the D1 database: VM name -> VM record
  upsertReq,   \* the update-status request of a client between its UPDATE and its upsertVM (D1)
  arrakis,     \* the VMs that exist at the VM-control service (ARRAKIS_URL)
  listing,     \* the GET /vm/tasks request of a client: its page, then its response
  tunnelConfig, \* the lines of the tunnel configuration file (TUNNEL_CONFIG_PATH)
  appFiles,    \* the VMs that hold the demo app's file /home/elara/app.js
  batch,       \* the messages of the batch handleQueueMessage is in, not yet handled
  acks,        \* task id -> what the handler told the queue about its message, last
  requests     \* the stop, pause, snapshot and cmd requests the collaborator has received

vars == <<apiVersion, now, tasks, sending, queue, deliveries, buffer, worker,
          cancelReq, updReq, resp, claimOk, executions, vms, upsertReq, arrakis, listing,
          tunnelConfig, appFiles, batch, acks, requests>>

\* ------------------------------------------------------------------ values
NoResp == [op |-> "none", id |-> 0, code |-> 0]
Resp(op, id, code) == [op |-> op, id |-> id, code |-> code]

NoResult == [vmName |-> NoValue, status |-> NoValue, ip |-> NoValue,
             subdomain |-> NoValue, demoUrl |-> NoValue]

\* what handleQueueMessage told the queue about a message: nothing yet, ack(), retry()
NoAck == [call |-> "none", delaySeconds |-> 0]
Ack == [call |-> "ack", delaySeconds |-> 0]
Retry == [call |-> "retry", delaySeconds |-> RetryDelay]

NoListing == [status |-> NoValue, limit |-> 0, offset |-> 0, tasks |-> <<>>,
              totalCount |-> 0, done |-> FALSE]

\* the characters of the VM names in use
Chars(vmName) ==
  IF vmName = "Demo_2" THEN <<"D", "e", "m", "o", "_", "2">>
  ELSE IF vmName = "demo-2" THEN <<"d", "e", "m", "o", "-", "2">>
  ELSE IF vmName = "my-demo-1" THEN <<"m", "y", "-", "d", "e", "m", "o", "-", "1">>
  ELSE <<"d", "e", "m", "o", "-", "1">>

\* toLowerCase() of one character
ToLowerCase(c) == IF c = "D" THEN "d" ELSE c

\* replace(/[^a-z0-9-]/g, '-') of one character
ReplaceChar(c) ==
  IF c \in {"d", "e", "m", "o", "y", "-", "1", "2"} THEN c ELSE "-"

RECURSIVE Join(_)
Join(cs) == IF cs = <<>> THEN "" ELSE Head(cs) \o Join(Tail(cs))

\* vmName.toLowerCase().replace(/[^a-z0-9-]/g, '-')
SanitizedChars(vmName) ==
  LET cs == Chars(vmName)
  IN [i \in 1..Len(cs) |-> ReplaceChar(ToLowerCase(cs[i]))]

Sanitize(vmName) == Join(SanitizedChars(vmName))

\* `${sanitizedName}.${this.baseDomain}`
Subdomain(vmName) == Sanitize(vmName) \o "." \o BaseDomain

\* response.data.ip of POST /v1/vms, as its parts between the '/' characters
ArrakisIp(vmName) ==
  IF vmName = "Demo_2" THEN <<"10.20.1.3">>
  ELSE IF vmName = "demo-2" THEN <<"10.20.1.5">>
  ELSE IF vmName = "my-demo-1" THEN <<"10.20.1.4", "24">>
  ELSE <<"10.20.1.2", "24">>

\* launchVM: the address without the CIDR suffix, if the response has one
StripCidr(ip) == IF Len(ip) > 1 THEN ip[1] ELSE Join(ip)

\* the status in the result of stopVM, pauseVM and snapshotVM; runCommand's has none
OperationStatus(type) ==
  IF type = "stop_vm" THEN "stopped"
  ELSE IF type = "pause_vm" THEN "paused"
  ELSE IF type = "snapshot_vm" THEN "snapshot_created"
  ELSE NoValue

\* (mutant) the URL is built with the scheme http
ExecResultHttp(type, vmName) ==
  IF type = "delete_vm"
  THEN [NoResult EXCEPT !.vmName = vmName, !.status = "deleted"]
  ELSE IF type # "launch_vm"
  THEN [NoResult EXCEPT !.vmName = vmName, !.status = OperationStatus(type)]
  ELSE [vmName |-> vmName, status |-> "running", ip |-> StripCidr(ArrakisIp(vmName)),
        subdomain |-> Subdomain(vmName), demoUrl |-> "http://" \o Subdomain(vmName)]

\* the result executeTask returns for a task of this type
ExecResult(type, vmName) ==
  IF type = "delete_vm"
  THEN [NoResult EXCEPT !.vmName = vmName, !.status = "deleted"]
  ELSE IF type # "launch_vm"
  THEN [NoResult EXCEPT !.vmName = vmName, !.status = OperationStatus(type)]
  ELSE [vmName |-> vmName, status |-> "running", ip |-> StripCidr(ArrakisIp(vmName)),
        subdomain |-> Subdomain(vmName), demoUrl |-> "https://" \o Subdomain(vmName)]

\* --------------------------------------------------------------- KV store
KVPut(store, k, v, exp) ==
  {e \in store : e.key # k} \cup {[key |-> k, val |-> v, exp |-> exp]}

KVGet(store, k) == {e.val : e \in {x \in store : x.key = k}}

KVDelete(store, k) == {e \in store : e.key # k}

\* (mutant) no entry ever expires
KVExpireNever(store, t) == store

\* entries whose expiration has passed are gone
KVExpire(store, t) == {e \in store : e.exp = NoTime \/ e.exp > t}

RECURSIVE SetToSeq(_)
SetToSeq(S) ==
  IF S = {} THEN <<>>
  ELSE LET m == CHOOSE x \in S : \A y \in S : x <= y
       IN <<m>> \o SetToSeq(S \ {m})

\* list({prefix}) returns the keys in order
KVList(store) == SetToSeq({e.key : e \in store})

Val(store, k) == CHOOSE v \in KVGet(store, k) : TRUE

\* a function with key k set to v (put of a key that may be new)
Put(f, k, v) == [x \in DOMAIN f \cup {k} |-> IF x = k THEN v ELSE f[x]]

\* ------------------------------------------------------------ relay buffer
\* (mutant) a key of its own for every delivery of the message
BufferKeyPerDelivery(taskId) == taskId + MaxTasks * deliveries[taskId]

\* the key of a task's buffer entry: `buffer:${taskId}`
BufferKey(taskId) == taskId

\* the entry handleQueueMessage builds from a message body
\* the fields of a payload beside vmName; NoValue for a field the payload does not have
NoPayload == [snapshotId |-> NoValue, command |-> NoValue]

PayloadOf(body) == IF "payload" \in DOMAIN body THEN body.payload ELSE NoPayload

TaskBuffer(body) ==
  [id |-> body.taskId, type |-> body.type, vmName |-> body.vmName,
   payload |-> PayloadOf(body), createdAt |-> body.timestamp, receivedAt |-> now,
   status |-> "ready", claimedAt |-> NoTime, claimedBy |-> NoWorker]

\* the entry the claim handler writes back
Claimed(entry, consumerId) ==
  [entry EXCEPT !.status = "claimed", !.claimedAt = now, !.claimedBy = consumerId]

ClaimAllowedAlways(entry) == TRUE

ClaimAllowed(entry) == entry.status = "ready"

\* the status code of POST /tasks/:taskId/claim: the checks of the handler, in its order
ClaimAnswer(store, taskId, consumerId) ==
  IF consumerId = NoWorker THEN 400
  ELSE IF KVGet(store, BufferKey(taskId)) = {} THEN 404
  ELSE IF ~ClaimAllowed(Val(store, BufferKey(taskId))) THEN 409
  ELSE 200

RECURSIVE InsertByCreatedAt(_, _)
InsertByCreatedAt(x, s) ==
  IF s = <<>> THEN <<x>>
  ELSE IF s[Len(s)].createdAt <= x.createdAt THEN Append(s, x)
  ELSE Append(InsertByCreatedAt(x, SubSeq(s, 1, Len(s) - 1)), s[Len(s)])

\* readyTasks.sort((a, b) => a.createdAt - b.createdAt): a stable sort
RECURSIVE SortByCreatedAt(_)
SortByCreatedAt(s) ==
  IF s = <<>> THEN <<>>
  ELSE InsertByCreatedAt(s[Len(s)], SortByCreatedAt(SubSeq(s, 1, Len(s) - 1)))

Summary(entry) ==
  [id |-> entry.id, type |-> entry.type, vmName |-> entry.vmName,
   createdAt |-> entry.createdAt, receivedAt |-> entry.receivedAt]

\* GET /tasks/ready: the entries with status ready, in the order of the keys, then sorted
ReadyTasks(store) ==
  LET keys == KVList(store)
      all == [i \in 1..Len(keys) |-> Val(store, keys[i])]
      pick == SelectSeq(all, LAMBDA e : e.status = "ready")
  IN SortByCreatedAt([i \in 1..Len(pick) |-> Summary(pick[i])])

ReadyIds(store) ==
  LET r == ReadyTasks(store) IN [i \in 1..Len(r) |-> r[i].id]

\* -------------------------------------------------------------- Task Store
NewTask(id, type, vmName) ==
  [id |-> id, type |-> type, vmName |-> vmName, status |-> "pending",
   createdAt |-> now, updatedAt |-> now, completedAt |-> NoTime,
   error |-> NoValue, result |-> NoResult]

\* (mutant) only the type is validated
ValidateCreateTypeOnly(type, vmName) ==
  IF type \notin {"launch_vm", "delete_vm"} THEN 400 ELSE 200

\* POST /vm/tasks: the two validations, as the status code they end in (200: accepted)
ValidateCreate(type, vmName) ==
  IF type = NoValue \/ vmName = NoValue THEN 400
  ELSE IF type \notin {"launch_vm", "delete_vm"} THEN 400
  ELSE 200

\* D1: UPDATE vm_tasks SET status, updated_at, completed_at, error_message, result WHERE id
D1UpdateTaskStatus(db, taskId, status, error, result) ==
  [t \in DOMAIN db |->
     IF t = taskId
     THEN [db[t] EXCEPT !.status = status,
                        !.updatedAt = now,
                        !.completedAt = IF status \in {"completed", "failed"} THEN now ELSE NoTime,
                        !.error = error,
                        !.result = result]
     ELSE db[t]]

\* (mutant) the UPDATE counts as a change whether or not a row has the id
D1ChangedAlways(db, taskId) == TRUE

\* updateResult.meta.changes > 0
D1Changed(db, taskId) == taskId \in DOMAIN db

\* KV: the task object the update-status handler writes back
KVUpdateTask(task, status, error, result) ==
  [task EXCEPT !.status = status,
               !.updatedAt = now,
               !.completedAt = IF status \in {"completed", "failed"} THEN now ELSE @,
               !.error = IF error # NoValue THEN error ELSE @,
               !.result = IF result # NoResult THEN result ELSE @]

\* (mutant) a task in processing can be cancelled too
CancelAllowedUntilDone(task) == task.status \in {"pending", "processing"}

\* the cancel handlers' test
CancelAllowed(task) == task.status = "pending"

\* (mutant) the cancellation leaves completedAt out
KVCancelTaskNoCompletedAt(task) ==
  [task EXCEPT !.status = "failed", !.error = CancelMsg, !.updatedAt = now]

\* KV: the task object the cancel handler writes back
KVCancelTask(task) ==
  [task EXCEPT !.status = "failed", !.error = CancelMsg,
               !.updatedAt = now, !.completedAt = now]

\* the Task Store after the cancel handler's write of either version
StoreCancel(db, copy, taskId) ==
  IF apiVersion = "D1" THEN D1UpdateTaskStatus(db, taskId, "failed", CancelMsg, NoResult)
  ELSE Put(db, taskId, KVCancelTask(copy))

\* PUT /vm/tasks/:taskId/status (D1): status === 'completed' && result && result.subdomain
NeedsUpsert(status, result) ==
  status = "completed" /\ result # NoResult /\ result.subdomain # NoValue

\* the row the update-status handler hands to upsertVM
VMRecord(result) ==
  [name |-> result.vmName, ipAddress |-> result.ip, status |-> "running",
   subdomain |-> result.subdomain, port |-> 8080, createdAt |-> now, updatedAt |-> now]

\* INSERT INTO vms ... ON CONFLICT(name) DO UPDATE SET ip_address, status, subdomain, port,
\* updated_at (created_at stays)
UpsertVM(db, vm) ==
  IF vm.name \in DOMAIN db
  THEN [db EXCEPT ![vm.name] = [vm EXCEPT !.createdAt = db[vm.name].createdAt]]
  ELSE Put(db, vm.name, vm)

\* DELETE FROM vms WHERE name = ?
DeleteVM(db, vmName) == [n \in DOMAIN db \ {vmName} |-> db[n]]

\* GET /vm/tasks: the rows the WHERE clause keeps (no clause without a status parameter)
Matching(db, status) ==
  {t \in DOMAIN db : status = NoValue \/ db[t].status = status}

\* ORDER BY created_at DESC: the orders of the matching rows the database may return
\* (rows with the same created_at in any order)
OrderedByCreatedAtDesc(db, status) ==
  LET M == Matching(db, status)
      n == Cardinality(M)
  IN {q \in [1..n -> M] :
        /\ \A i, j \in 1..n : i # j => q[i] # q[j]
        /\ \A i, j \in 1..n : i < j => db[q[i]].createdAt >= db[q[j]].createdAt}

\* LIMIT ? OFFSET ?
LimitOffset(q, limit, offset) ==
  SubSeq(q, offset + 1, IF offset + limit < Len(q) THEN offset + limit ELSE Len(q))

\* result.results.map(row => ...)
TaskRow(db, t) ==
  [id |-> t, type |-> db[t].type, status |-> db[t].status, vmName |-> db[t].vmName,
   createdAt |-> db[t].createdAt, updatedAt |-> db[t].updatedAt,
   completedAt |-> db[t].completedAt]

\* (mutant) the count leaves the WHERE clause out
CountAllTasks(db, status) == Cardinality(DOMAIN db)

\* SELECT COUNT(*) as total FROM vm_tasks WHERE ...
CountTasks(db, status) == Cardinality(Matching(db, status))

\* ------------------------------------------------------ tunnel configuration
\* the VM names the tunnel configuration may have entries of
TunnelNames == {"demo-1", "Demo_2", "demo-2", "my-demo-1"}

\* the addresses the backend-service lines of a configuration may have
TunnelIps == {StripCidr(ArrakisIp(n)) : n \in TunnelNames}

\* the lines of a configuration that contain the text 'ingress:'
MarkerLines == {"ingress:", "# ingress: rules of the tunnel"}

\* the catch-all rule at the end of the ingress section
CatchAll == "  - service: http_status:404"

\* the configuration file before any VM is exposed
InitialConfig == <<"tunnel: arrakis-vm-tunnel", "ingress:", CatchAll>>

\* `  - hostname: ${subdomain}`
HostnameLine(subdomain) == "  - hostname: " \o subdomain

\* `    service: http://${vmIP}:3000`
ServiceLine(vmIP) == "    service: http://" \o vmIP \o ":3000"

\* the two lines setupTunnel writes for a VM
NewEntry(vmName, vmIP) == <<HostnameLine(Subdomain(vmName)), ServiceLine(vmIP)>>

\* s is the end of t
IsSuffix(s, t) ==
  /\ Len(s) <= Len(t)
  /\ SubSeq(t, Len(t) - Len(s) + 1, Len(t)) = s

\* line.includes(subdomain) for the subdomain of vmName: among the lines of a configuration
\* only a hostname line can contain it, and it does when the sanitized name ends its host
IncludesSubdomain(line, vmName) ==
  \E n \in TunnelNames :
    /\ line = HostnameLine(Subdomain(n))
    /\ IsSuffix(SanitizedChars(vmName), SanitizedChars(n))

\* line.includes('service: http://')
IncludesService(line) == \E ip \in TunnelIps : line = ServiceLine(ip)

\* line.includes('ingress:')
IncludesIngress(line) == line \in MarkerLines

\* lines.findIndex(line => line.includes('ingress:')), counted from 1; 0 when there is none
FindIngress(lines) ==
  LET found == {i \in 1..Len(lines) : IncludesIngress(lines[i])}
  IN IF found = {} THEN 0 ELSE CHOOSE i \in found : \A j \in found : i <= j

\* lines.indexOf(line), counted from 1
IndexOf(lines, line) ==
  CHOOSE i \in 1..Len(lines) : lines[i] = line /\ \A j \in 1..(i - 1) : lines[j] # line

\* lines.splice(index, 0, ...entry), where index counts from 0
Splice(lines, index, entry) ==
  SubSeq(lines, 1, index) \o entry \o SubSeq(lines, index + 1, Len(lines))

\* (mutant) the new entry is appended to the configuration
SetupTunnelConfigAtEnd(lines, vmName, vmIP) ==
  IF FindIngress(lines) = 0 THEN lines ELSE lines \o NewEntry(vmName, vmIP)

\* setupTunnel: the configuration it writes; without an ingress line it throws and writes
\* nothing
SetupTunnelConfig(lines, vmName, vmIP) ==
  LET ingressIndex == FindIngress(lines)
  IN IF ingressIndex = 0 THEN lines ELSE Splice(lines, ingressIndex, NewEntry(vmName, vmIP))

\* cleanupTunnel: the filter it applies to the lines of the configuration
KeptByCleanup(lines, line, vmName) ==
  /\ ~IncludesSubdomain(line, vmName)
  /\ \/ ~IncludesService(line)
     \/ IndexOf(lines, line) = 1
     \/ ~IncludesSubdomain(lines[IndexOf(lines, line) - 1], vmName)

\* (mutant) cleanupTunnel leaves the hostname lines
CleanupTunnelConfigNone(lines, vmName) == lines

\* cleanupTunnel: the configuration it writes
CleanupTunnelConfig(lines, vmName) ==
  LET Keep(line) == KeptByCleanup(lines, line, vmName)
  IN SelectSeq(lines, Keep)

\* ------------------------------------------------------------------- state
IdleWorker ==
  [pc |-> "idle", todo |-> <<>>, task |-> 0, type |-> NoValue, vmName |-> NoValue,
   payload |-> NoPayload, ok |-> FALSE, error |-> NoValue, entry |-> <<>>, copy |-> <<>>,
   lines |-> <<>>]

Init ==
  /\ apiVersion \in ApiVersions
  /\ now = 1
  /\ tasks = <<>>
  /\ sending = {}
  /\ queue = {}
  /\ deliveries = [t \in TaskIds |-> 0]
  /\ buffer = {}
  /\ worker = [w \in Workers |-> IdleWorker]
  /\ cancelReq = [t \in TaskIds |-> <<>>]
  /\ updReq = <<>>
  /\ resp = NoResp
  /\ claimOk = [t \in TaskIds |-> {}]
  /\ executions = [t \in TaskIds |-> 0]
  /\ vms = <<>>
  /\ upsertReq = <<>>
  /\ arrakis = {}
  /\ listing = NoListing
  /\ tunnelConfig = InitialConfig
  /\ appFiles = {}
  /\ batch = <<>>
  /\ acks = [t \in TaskIds |-> NoAck]
  /\ requests = {}

\* -------------------------------------------------------------------- time
\* how many times the clock has advanced: it advances by a second or by the TTL
Ticks == ((now - 1) % ExpirationTtl) + ((now - 1) \div ExpirationTtl)

Tick(d) ==
  /\ Ticks < MaxTicks
  /\ now' = now + d
  /\ buffer' = KVExpire(buffer, now + d)
  /\ resp' = NoResp
  /\ UNCHANGED <<requests, tunnelConfig, appFiles, batch, acks, apiVersion, vms, upsertReq,
                 arrakis, listing, tasks, sending, queue, deliveries, worker, cancelReq,
                 updReq, claimOk, executions>>

\* -------------------------------------------------------------- API worker
\* uuidv4(): an id no task has yet
NextId == Cardinality(DOMAIN tasks) + 1

\* POST /vm/tasks, to the Task Store write
CreateTask(type, vmName) ==
  /\ IF ValidateCreate(type, vmName) # 200
     THEN /\ resp' = Resp("create", 0, ValidateCreate(type, vmName))
          /\ UNCHANGED <<tasks, sending>>
     ELSE /\ Cardinality(DOMAIN tasks) < MaxTasks
          /\ LET id == NextId
             IN /\ tasks' = Put(tasks, id, NewTask(id, type, vmName))
                /\ sending' = sending \cup {id}
          /\ resp' = NoResp
  /\ UNCHANGED <<requests, tunnelConfig, appFiles, batch, acks, apiVersion, vms, upsertReq,
                 arrakis, listing, now, queue, deliveries, buffer, worker, cancelReq,
                 updReq, claimOk, executions>>

\* POST /vm/tasks while fewer than MaxSubmitted tasks were accepted
CreateFirst(type, vmName) ==
  /\ ValidateCreate(type, vmName) = 200 => Cardinality(DOMAIN tasks) < MaxSubmitted
  /\ CreateTask(type, vmName)

\* POST /vm/tasks, the queue send and the response
SendToQueue(id) ==
  /\ id \in sending
  /\ queue' = queue \cup {[taskId |-> id, type |-> tasks[id].type,
                           vmName |-> tasks[id].vmName,
                           timestamp |-> tasks[id].createdAt]}
  /\ sending' = sending \ {id}
  /\ resp' = Resp("create", id, 200)
  /\ UNCHANGED <<requests, tunnelConfig, appFiles, batch, acks, apiVersion, vms, upsertReq,
                 arrakis, listing, now, tasks, deliveries, buffer, worker, cancelReq,
                 updReq, claimOk, executions>>

\* VM_TASK_QUEUE.send throws after the record was stored: the handler's catch answers 500
\* and the record stays
SendFails(id) ==
  /\ id \in sending
  /\ sending' = sending \ {id}
  /\ resp' = Resp("create", 0, 500)
  /\ UNCHANGED <<requests, tunnelConfig, appFiles, batch, acks, apiVersion, vms, upsertReq,
                 arrakis, listing, now, tasks, queue, deliveries, buffer, worker, cancelReq,
                 updReq, claimOk, executions>>

\* DELETE /vm/tasks/:taskId, to the answer of the read
CancelRead(t) ==
  /\ cancelReq[t] = <<>>
  /\ IF t \notin DOMAIN tasks
     THEN resp' = Resp("cancel", t, 404) /\ UNCHANGED cancelReq
     ELSE IF ~CancelAllowed(tasks[t])
     THEN resp' = Resp("cancel", t, 400) /\ UNCHANGED cancelReq
     ELSE resp' = NoResp /\ cancelReq' = [cancelReq EXCEPT ![t] = <<tasks[t]>>]
  /\ UNCHANGED <<requests, tunnelConfig, appFiles, batch, acks, apiVersion, vms, upsertReq,
                 arrakis, listing, now, tasks, sending, queue, deliveries, buffer, worker,
                 updReq, claimOk, executions>>

\* a client cancels a task it created
CancelOwn(t) == t \in DOMAIN tasks /\ CancelRead(t)

\* DELETE /vm/tasks/:taskId, the write and the response
CancelWrite(t) ==
  /\ cancelReq[t] # <<>>
  /\ tasks' = StoreCancel(tasks, cancelReq[t][1], t)
  /\ cancelReq' = [cancelReq EXCEPT ![t] = <<>>]
  /\ resp' = Resp("cancel", t, 200)
  /\ UNCHANGED <<requests, tunnelConfig, appFiles, batch, acks, apiVersion, vms, upsertReq,
                 arrakis, listing, now, sending, queue, deliveries, buffer, worker, updReq,
                 claimOk, executions>>

\* PUT /vm/tasks/:taskId/status of the D1 version: the UPDATE, and the response unless
\* upsertVM follows
UpdateD1(t, status, error, result) ==
  /\ apiVersion = "D1"
  /\ tasks' = D1UpdateTaskStatus(tasks, t, status, error, result)
  /\ IF D1Changed(tasks, t) /\ NeedsUpsert(status, result)
     THEN /\ upsertReq = <<>>
          /\ upsertReq' = <<[id |-> t, result |-> result]>>
          /\ resp' = NoResp
     ELSE /\ resp' = Resp("update", t, IF D1Changed(tasks, t) THEN 200 ELSE 404)
          /\ UNCHANGED upsertReq
  /\ UNCHANGED <<requests, tunnelConfig, appFiles, batch, acks, apiVersion, now, sending,
                 queue, deliveries, buffer, worker, cancelReq, updReq, claimOk, executions,
                 vms, arrakis, listing>>

\* PUT /vm/tasks/:taskId/status of the D1 version: upsertVM and the response
UpsertVMWrite ==
  /\ upsertReq # <<>>
  /\ vms' = UpsertVM(vms, VMRecord(upsertReq[1].result))
  /\ resp' = Resp("update", upsertReq[1].id, 200)
  /\ upsertReq' = <<>>
  /\ UNCHANGED <<requests, tunnelConfig, appFiles, batch, acks, apiVersion, now, tasks,
                 sending, queue, deliveries, buffer, worker, cancelReq, updReq, claimOk,
                 executions, arrakis, listing>>

\* GET /vm/tasks, the query of the page
ListRead(status, limit, offset) ==
  /\ apiVersion = "D1"
  /\ listing = NoListing \/ listing.done
  /\ \E q \in OrderedByCreatedAtDesc(tasks, status) :
       LET page == LimitOffset(q, limit, offset)
       IN listing' = [status |-> status, limit |-> limit, offset |-> offset,
                      tasks |-> [i \in 1..Len(page) |-> TaskRow(tasks, page[i])],
                      totalCount |-> 0, done |-> FALSE]
  /\ resp' = NoResp
  /\ UNCHANGED <<requests, tunnelConfig, appFiles, batch, acks, apiVersion, now, tasks,
                 sending, queue, deliveries, buffer, worker, cancelReq, updReq, claimOk,
                 executions, vms, upsertReq, arrakis>>

\* GET /vm/tasks, the count query and the response
ListCount ==
  /\ listing # NoListing /\ ~listing.done
  /\ listing' = [listing EXCEPT !.totalCount = CountTasks(tasks, listing.status),
                                !.done = TRUE]
  /\ resp' = NoResp
  /\ UNCHANGED <<requests, tunnelConfig, appFiles, batch, acks, apiVersion, now, tasks,
                 sending, queue, deliveries, buffer, worker, cancelReq, updReq, claimOk,
                 executions, vms, upsertReq, arrakis>>

\* DELETE /vm/:vmName
DeleteVMRecord(vmName) ==
  /\ vms' = DeleteVM(vms, vmName)
  /\ resp' = Resp("deleteVM", 0, IF vmName \in DOMAIN vms THEN 200 ELSE 404)
  /\ UNCHANGED <<requests, tunnelConfig, appFiles, batch, acks, apiVersion, now, tasks,
                 sending, queue, deliveries, buffer, worker, cancelReq, updReq, claimOk,
                 executions, upsertReq, arrakis, listing>>

\* PUT /vm/tasks/:taskId/status of the KV version, to the answer of the read
UpdateReadKV(t, status, error, result) ==
  /\ apiVersion = "KV"
  /\ updReq = <<>>
  /\ IF t \notin DOMAIN tasks
     THEN resp' = Resp("update", t, 404) /\ UNCHANGED updReq
     ELSE /\ resp' = NoResp
          /\ updReq' = <<[id |-> t, status |-> status, error |-> error,
                          result |-> result, task |-> tasks[t]]>>
  /\ UNCHANGED <<requests, tunnelConfig, appFiles, batch, acks, apiVersion, vms, upsertReq,
                 arrakis, listing, now, tasks, sending, queue, deliveries, buffer, worker,
                 cancelReq, claimOk, executions>>

\* PUT /vm/tasks/:taskId/status of the KV version, the write and the response
UpdateWriteKV ==
  /\ updReq # <<>>
  /\ LET r == updReq[1]
     IN /\ tasks' = Put(tasks, r.id, KVUpdateTask(r.task, r.status, r.error, r.result))
        /\ resp' = Resp("update", r.id, 200)
  /\ updReq' = <<>>
  /\ UNCHANGED <<requests, tunnelConfig, appFiles, batch, acks, apiVersion, vms, upsertReq,
                 arrakis, listing, now, sending, queue, deliveries, buffer, worker,
                 cancelReq, claimOk, executions>>

\* --------------------------------------------------------- consumer worker
\* (mutant) every message is acknowledged
QueueAnswerAck(stored) == Ack

\* handleQueueMessage: ack() after the put, retry({delaySeconds: 30}) in the catch
QueueAnswer(stored) == IF stored THEN Ack ELSE Retry

\* the body of handleQueueMessage's loop for message m: the put succeeds (stored) or throws
HandleMessage(m, stored) ==
  /\ buffer' = IF stored
               THEN KVPut(buffer, BufferKey(m.taskId), TaskBuffer(m), now + ExpirationTtl)
               ELSE buffer
  /\ acks' = [acks EXCEPT ![m.taskId] = QueueAnswer(stored)]
  /\ deliveries' = [deliveries EXCEPT ![m.taskId] = @ + 1]

\* handleQueueMessage for a batch of the one message of task t, whose put succeeds; the
\* queue may deliver the message again
HandleQueueMessage(t) ==
  /\ deliveries[t] < MaxDeliveries
  /\ \E m \in queue : m.taskId = t /\ HandleMessage(m, TRUE)
  /\ resp' = NoResp
  /\ UNCHANGED <<requests, tunnelConfig, appFiles, batch, apiVersion, vms, upsertReq,
                 arrakis, listing, now, tasks, sending, queue, worker, cancelReq, updReq,
                 claimOk, executions>>

\* the sequences of distinct members of S
Batches(S) ==
  {b \in UNION {[1..n -> S] : n \in 1..Cardinality(S)} :
     \A i, j \in 1..Len(b) : b[i] = b[j] => i = j}

\* the queue delivers a batch of messages to handleQueueMessage
ReceiveBatch(b) ==
  /\ batch = <<>>
  /\ \A i \in 1..Len(b) : deliveries[b[i]] < MaxDeliveries /\ \E m \in queue : m.taskId = b[i]
  /\ batch' = b
  /\ resp' = NoResp
  /\ UNCHANGED <<requests, tunnelConfig, appFiles, acks, apiVersion, vms, upsertReq,
                 arrakis, listing, now, tasks, sending, queue, deliveries, buffer, worker,
                 cancelReq, updReq, claimOk, executions>>

\* handleQueueMessage: one pass of the loop over batch.messages
HandleBatchMessage(stored) ==
  /\ batch # <<>>
  /\ \E m \in queue : m.taskId = Head(batch) /\ HandleMessage(m, stored)
  /\ batch' = Tail(batch)
  /\ resp' = NoResp
  /\ UNCHANGED <<requests, tunnelConfig, appFiles, apiVersion, vms, upsertReq, arrakis,
                 listing, now, tasks, sending, queue, worker, cancelReq, updReq, claimOk,
                 executions>>

\* ---------------------------------------------------------- local consumer
\* the consumer after the task at the head of its list: the next one, or the sleep
AfterTask(w) ==
  LET rest == Tail(worker[w].todo)
  IN [IdleWorker EXCEPT !.pc = IF rest = <<>> THEN "idle" ELSE "loop", !.todo = rest]

\* processTasks: GET /tasks/ready
Poll(w) ==
  /\ worker[w].pc = "idle"
  /\ LET list == ReadyIds(buffer)
     IN worker' = [worker EXCEPT ![w] =
                     [IdleWorker EXCEPT !.pc = IF list = <<>> THEN "idle" ELSE "loop",
                                        !.todo = list]]
  /\ resp' = NoResp
  /\ UNCHANGED <<requests, tunnelConfig, appFiles, batch, acks, apiVersion, vms, upsertReq,
                 arrakis, listing, now, tasks, sending, queue, deliveries, buffer,
                 cancelReq, updReq, claimOk, executions>>

\* (mutant) the consumer goes on with a task whose claim was refused
RefusedGoesOn(w) ==
  [worker[w] EXCEPT !.pc = "claimed", !.task = Head(worker[w].todo), !.type = "delete_vm",
                    !.vmName = "demo-1"]

\* the claim was refused: axios throws, processTasks logs and takes the next listed task
Refused(w) == AfterTask(w)

\* POST /tasks/:taskId/claim, to the answer of the read; a refusal makes axios throw,
\* and processTasks goes on with the next task
ClaimRead(w) ==
  /\ worker[w].pc = "loop"
  /\ LET t == Head(worker[w].todo)
         code == ClaimAnswer(buffer, t, w)
     IN IF code # 200
        THEN resp' = Resp("claim", t, code) /\ worker' = [worker EXCEPT ![w] = Refused(w)]
        ELSE /\ resp' = NoResp
             /\ worker' = [worker EXCEPT ![w].pc = "claimWrite",
                                         ![w].entry = <<Val(buffer, BufferKey(t))>>]
  /\ UNCHANGED <<requests, tunnelConfig, appFiles, batch, acks, apiVersion, vms, upsertReq,
                 arrakis, listing, now, tasks, sending, queue, deliveries, buffer,
                 cancelReq, updReq, claimOk, executions>>

\* POST /tasks/:taskId/claim, the write and the response
ClaimWrite(w) ==
  /\ worker[w].pc = "claimWrite"
  /\ LET e == worker[w].entry[1]
     IN /\ buffer' = KVPut(buffer, BufferKey(e.id), Claimed(e, w), NoTime)
        /\ claimOk' = [claimOk EXCEPT ![e.id] = @ \cup {w}]
        /\ worker' = [worker EXCEPT ![w].pc = "claimed", ![w].task = e.id,
                                    ![w].type = e.type, ![w].vmName = e.vmName,
                                    ![w].payload = e.payload, ![w].entry = <<>>]
        /\ resp' = NoResp
  /\ UNCHANGED <<requests, tunnelConfig, appFiles, batch, acks, apiVersion, vms, upsertReq,
                 arrakis, listing, now, tasks, sending, queue, deliveries, cancelReq,
                 updReq, executions>>

\* the body of the consumer's updateTaskStatus call at its position
Reporting(w) == worker[w].pc \in {"claimed", "report"}
WStatus(w) ==
  IF worker[w].pc = "claimed" THEN "processing"
  ELSE IF worker[w].ok THEN "completed" ELSE "failed"
\* (mutant) the report of a failure carries no error
WErrorNone(w) == NoValue

WError(w) == IF worker[w].pc = "report" /\ ~worker[w].ok THEN worker[w].error ELSE NoValue
WResult(w) ==
  IF worker[w].pc = "report" /\ worker[w].ok
  THEN ExecResult(worker[w].type, worker[w].vmName) ELSE NoResult

\* the consumer after updateTaskStatus returned (it swallows every error)
AfterUpdate(w) ==
  [worker[w] EXCEPT !.pc = IF worker[w].pc = "claimed" THEN "exec" ELSE "delete",
                    !.copy = <<>>]

\* updateTaskStatus against the D1 version: the handler's UPDATE; upsertVM follows for a
\* completed task whose result has a subdomain
WorkerUpdateD1(w) ==
  /\ apiVersion = "D1"
  /\ Reporting(w)
  /\ tasks' = D1UpdateTaskStatus(tasks, worker[w].task, WStatus(w), WError(w), WResult(w))
  /\ resp' = NoResp
  /\ worker' = [worker EXCEPT ![w] =
                  IF D1Changed(tasks, worker[w].task) /\ NeedsUpsert(WStatus(w), WResult(w))
                  THEN [worker[w] EXCEPT !.pc = "upsert"]
                  ELSE AfterUpdate(w)]
  /\ UNCHANGED <<requests, tunnelConfig, appFiles, batch, acks, apiVersion, vms, upsertReq,
                 arrakis, listing, now, sending, queue, deliveries, buffer, cancelReq,
                 updReq, claimOk, executions>>

\* updateTaskStatus against the D1 version: the handler's upsertVM and response
WorkerUpsertVM(w) ==
  /\ worker[w].pc = "upsert"
  /\ vms' = UpsertVM(vms, VMRecord(ExecResult(worker[w].type, worker[w].vmName)))
  /\ resp' = NoResp
  /\ worker' = [worker EXCEPT ![w].pc = "delete"]
  /\ UNCHANGED <<requests, tunnelConfig, appFiles, batch, acks, apiVersion, upsertReq,
                 arrakis, listing, now, tasks, sending, queue, deliveries, buffer,
                 cancelReq, updReq, claimOk, executions>>

\* updateTaskStatus against the KV version, the handler's read
WorkerUpdateReadKV(w) ==
  /\ apiVersion = "KV"
  /\ Reporting(w)
  /\ worker[w].copy = <<>>
  /\ IF worker[w].task \notin DOMAIN tasks
     THEN /\ resp' = NoResp
          /\ worker' = [worker EXCEPT ![w] = AfterUpdate(w)]
     ELSE /\ resp' = NoResp
          /\ worker' = [worker EXCEPT ![w].copy = <<tasks[worker[w].task]>>]
  /\ UNCHANGED <<requests, tunnelConfig, appFiles, batch, acks, apiVersion, vms, upsertReq,
                 arrakis, listing, now, tasks, sending, queue, deliveries, buffer,
                 cancelReq, updReq, claimOk, executions>>

\* updateTaskStatus against the KV version, the handler's write and response
WorkerUpdateWriteKV(w) ==
  /\ Reporting(w)
  /\ worker[w].copy # <<>>
  /\ tasks' = Put(tasks, worker[w].task,
                  KVUpdateTask(worker[w].copy[1], WStatus(w), WError(w), WResult(w)))
  /\ resp' = NoResp
  /\ worker' = [worker EXCEPT ![w] = AfterUpdate(w)]
  /\ UNCHANGED <<requests, tunnelConfig, appFiles, batch, acks, apiVersion, vms, upsertReq,
                 arrakis, listing, now, sending, queue, deliveries, buffer, cancelReq,
                 updReq, claimOk, executions>>

\* updateTaskStatus when the request fails before it reaches the API worker
WorkerUpdateFails(w) ==
  /\ Reporting(w)
  /\ worker[w].copy = <<>>
  /\ worker' = [worker EXCEPT ![w] = AfterUpdate(w)]
  /\ resp' = NoResp
  /\ UNCHANGED <<requests, tunnelConfig, appFiles, batch, acks, apiVersion, vms, upsertReq,
                 arrakis, listing, now, tasks, sending, queue, deliveries, buffer,
                 cancelReq, updReq, claimOk, executions>>

\* executeTask is entered
ExecuteStart(w) ==
  /\ worker[w].pc = "exec"
  /\ executions' = [executions EXCEPT ![worker[w].task] = IF @ = 0 THEN 1 ELSE 2]
  /\ worker' = [worker EXCEPT ![w].pc = "running"]
  /\ resp' = NoResp
  /\ UNCHANGED <<requests, tunnelConfig, appFiles, batch, acks, apiVersion, vms, upsertReq,
                 arrakis, listing, now, tasks, sending, queue, deliveries, buffer,
                 cancelReq, updReq, claimOk>>

\* (mutant) the error of a launch step is swallowed and the next step is taken
FinishedGoesOn(w, ok, message) ==
  IF ok THEN [worker[w] EXCEPT !.pc = "report", !.ok = TRUE, !.error = NoValue]
  ELSE [worker[w] EXCEPT !.pc = IF worker[w].pc = "running" THEN "bootstrap" ELSE "expose"]

\* processTask after executeTask returned (ok) or threw an error with this message
Finished(w, ok, message) ==
  [worker[w] EXCEPT !.pc = "report", !.ok = ok, !.error = IF ok THEN NoValue ELSE message]

\* launchVMWithAutomation, step 1: launchVM, POST /v1/vms of the VM-control service
LaunchVM(w, ok) ==
  /\ worker[w].pc = "running"
  /\ worker[w].type = "launch_vm"
  /\ arrakis' = IF ok THEN arrakis \cup {worker[w].vmName} ELSE arrakis
  /\ worker' = [worker EXCEPT ![w] =
                  IF ok THEN [worker[w] EXCEPT !.pc = "bootstrap"]
                  ELSE Finished(w, FALSE, ExecError)]
  /\ resp' = NoResp
  /\ UNCHANGED <<requests, tunnelConfig, appFiles, batch, acks, apiVersion, vms, upsertReq,
                 listing, now, tasks, sending, queue, deliveries, buffer, cancelReq, updReq,
                 claimOk, executions>>

\* what the calls of setupDemoApp may do: the file push fails, a command fails, the probe
\* call fails, the probe's output lacks 'Arrakis VM', the probe's output has it
BootstrapOutcomes == {"pushFails", "cmdFails", "probeFails", "noMarker", "confirmed"}

\* launchVMWithAutomation, step 2: setupDemoApp, which rethrows the error of a failed call
\* and only logs a probe output that lacks the marker
SetupDemoAppCalls(w, outcome) ==
  /\ worker[w].pc = "bootstrap"
  /\ appFiles' = IF outcome = "pushFails" THEN appFiles ELSE appFiles \cup {worker[w].vmName}
  /\ worker' = [worker EXCEPT ![w] =
                  IF outcome \in {"noMarker", "confirmed"}
                  THEN [worker[w] EXCEPT !.pc = "expose"]
                  ELSE Finished(w, FALSE, ExecError)]
  /\ resp' = NoResp
  /\ UNCHANGED <<tunnelConfig, arrakis>>
  /\ UNCHANGED <<requests, batch, acks, apiVersion, vms, upsertReq, listing, now, tasks,
                 sending, queue, deliveries, buffer, cancelReq, updReq, claimOk,
                 executions>>

\* setupDemoApp when every call succeeds and the probe confirms (ok), or when a command fails
SetupDemoApp(w, ok) == SetupDemoAppCalls(w, IF ok THEN "confirmed" ELSE "cmdFails")

\* what the calls of setupTunnel may do apart from the search for the ingress line: the
\* configuration file cannot be read, the restart of the tunnel service fails, all succeed
TunnelOutcomes == {"fileFails", "restartFails", "ok"}

\* launchVMWithAutomation, step 3: setupTunnel, and the return of the result
SetupTunnelCalls(w, outcome) ==
  /\ worker[w].pc = "expose"
  /\ LET vmName == worker[w].vmName
         vmIP == StripCidr(ArrakisIp(vmName))
     IN IF outcome = "fileFails"
        THEN /\ tunnelConfig' = tunnelConfig
             /\ worker' = [worker EXCEPT ![w] = Finished(w, FALSE, FileError)]
        ELSE IF FindIngress(tunnelConfig) = 0
        THEN /\ tunnelConfig' = tunnelConfig
             /\ worker' = [worker EXCEPT ![w] = Finished(w, FALSE, TunnelError)]
        ELSE /\ tunnelConfig' = SetupTunnelConfig(tunnelConfig, vmName, vmIP)
             /\ worker' = [worker EXCEPT ![w] = Finished(w, outcome = "ok", RestartError)]
  /\ resp' = NoResp
  /\ UNCHANGED <<appFiles, arrakis>>
  /\ UNCHANGED <<requests, batch, acks, apiVersion, vms, upsertReq, listing, now, tasks,
                 sending, queue, deliveries, buffer, cancelReq, updReq, claimOk,
                 executions>>

\* setupTunnel when every call succeeds (ok), or when the restart of the service fails
SetupTunnel(w, ok) == SetupTunnelCalls(w, IF ok THEN "ok" ELSE "restartFails")

\* what the calls of cleanupTunnel may do: the configuration file cannot be read or written,
\* the deletion of the DNS route fails (not found), the restart of the service fails, all
\* succeed
CleanupOutcomes == {"fileFails", "dnsNotFound", "restartFails", "ok"}

\* deleteVMWithCleanup: DELETE /v1/vms/:vmName (ok: it succeeds), then cleanupTunnel, which
\* catches every error of its calls
DeleteVMThenCleanup(w, ok, cleanup) ==
  /\ worker[w].pc = "running"
  /\ worker[w].type = "delete_vm"
  /\ arrakis' = IF ok THEN arrakis \ {worker[w].vmName} ELSE arrakis
  /\ appFiles' = IF ok THEN appFiles \ {worker[w].vmName} ELSE appFiles
  /\ tunnelConfig' = IF ok /\ cleanup # "fileFails"
                     THEN CleanupTunnelConfig(tunnelConfig, worker[w].vmName)
                     ELSE tunnelConfig
  /\ worker' = [worker EXCEPT ![w] = Finished(w, ok, ExecError)]
  /\ resp' = NoResp
  /\ UNCHANGED <<requests, batch, acks, apiVersion, vms, upsertReq, listing, now, tasks,
                 sending, queue, deliveries, buffer, cancelReq, updReq, claimOk,
                 executions>>

DeleteVMWithCleanup(w, ok) ==
  \E cleanup \in CleanupOutcomes : DeleteVMThenCleanup(w, ok, cleanup)

\* The steps below are setupTunnel and deleteVMWithCleanup again, one step for each await
\* on the configuration file: between the readFile and the writeFile of one consumer
\* another consumer of the same host may run.  SetupTunnelCalls and DeleteVMThenCleanup
\* are these steps run together, which is all a host with a single consumer can show.

\* setupTunnel to the end of fs.readFile: the lines are in the consumer's memory
SetupTunnelRead(w) ==
  /\ worker[w].pc = "expose"
  /\ worker' = [worker EXCEPT ![w] =
                  IF FindIngress(tunnelConfig) = 0
                  THEN Finished(w, FALSE, TunnelError)
                  ELSE [worker[w] EXCEPT !.pc = "exposeWrite", !.lines = tunnelConfig]]
  /\ resp' = NoResp
  /\ UNCHANGED <<requests, tunnelConfig, appFiles, arrakis, batch, acks, apiVersion, vms, upsertReq, listing, now, tasks,
                 sending, queue, deliveries, buffer, cancelReq, updReq, claimOk,
                 executions>>

\* setupTunnel from the splice to its end: fs.writeFile of the lines read before, with
\* the new entry, then the restart of cloudflared
SetupTunnelWrite(w, ok) ==
  /\ worker[w].pc = "exposeWrite"
  /\ tunnelConfig' = SetupTunnelConfig(worker[w].lines, worker[w].vmName,
                                       StripCidr(ArrakisIp(worker[w].vmName)))
  /\ worker' = [worker EXCEPT ![w] = [Finished(w, ok, RestartError) EXCEPT !.lines = <<>>]]
  /\ resp' = NoResp
  /\ UNCHANGED <<requests, appFiles, arrakis, batch, acks, apiVersion, vms, upsertReq, listing, now, tasks,
                 sending, queue, deliveries, buffer, cancelReq, updReq, claimOk,
                 executions>>

\* deleteVMWithCleanup: the DELETE request of deleteVM
DeleteVMCall(w, ok) ==
  /\ worker[w].pc = "running"
  /\ worker[w].type = "delete_vm"
  /\ arrakis' = IF ok THEN arrakis \ {worker[w].vmName} ELSE arrakis
  /\ appFiles' = IF ok THEN appFiles \ {worker[w].vmName} ELSE appFiles
  /\ worker' = [worker EXCEPT ![w] =
                  IF ok THEN [worker[w] EXCEPT !.pc = "cleanup"]
                  ELSE Finished(w, FALSE, ExecError)]
  /\ resp' = NoResp
  /\ UNCHANGED <<requests, tunnelConfig, batch, acks, apiVersion, vms, upsertReq, listing, now, tasks,
                 sending, queue, deliveries, buffer, cancelReq, updReq, claimOk,
                 executions>>

\* cleanupTunnel to the end of fs.readFile; a failure is caught and logged
CleanupTunnelRead(w, ok) ==
  /\ worker[w].pc = "cleanup"
  /\ worker' = [worker EXCEPT ![w] =
                  IF ok THEN [worker[w] EXCEPT !.pc = "cleanupWrite", !.lines = tunnelConfig]
                  ELSE Finished(w, TRUE, NoValue)]
  /\ resp' = NoResp
  /\ UNCHANGED <<requests, tunnelConfig, appFiles, arrakis, batch, acks, apiVersion, vms, upsertReq, listing, now, tasks,
                 sending, queue, deliveries, buffer, cancelReq, updReq, claimOk,
                 executions>>

\* cleanupTunnel from the filter to its end: fs.writeFile of the lines read before,
\* without the entry; what follows cannot fail the task
CleanupTunnelWrite(w) ==
  /\ worker[w].pc = "cleanupWrite"
  /\ tunnelConfig' = CleanupTunnelConfig(worker[w].lines, worker[w].vmName)
  /\ worker' = [worker EXCEPT ![w] = [Finished(w, TRUE, NoValue) EXCEPT !.lines = <<>>]]
  /\ resp' = NoResp
  /\ UNCHANGED <<requests, appFiles, arrakis, batch, acks, apiVersion, vms, upsertReq, listing, now, tasks,
                 sending, queue, deliveries, buffer, cancelReq, updReq, claimOk,
                 executions>>

\* (mutant) executeTask checks nothing before it calls
ExecValidationNone(type, payload) == NoValue

\* executeTask: the message of the error thrown before any call, NoValue when none is
ExecValidation(type, payload) ==
  IF type = "snapshot_vm" /\ payload.snapshotId = NoValue THEN "Snapshot ID is required"
  ELSE IF type = "run_command" /\ payload.command = NoValue THEN "Command is required"
  ELSE IF type \notin {"launch_vm", "delete_vm", "stop_vm", "pause_vm", "snapshot_vm",
                       "run_command"}
  THEN "Unknown task type: " \o type
  ELSE NoValue

\* executeTask throws for a missing payload field or an unknown type
ExecuteRejects(w) ==
  /\ worker[w].pc = "running"
  /\ ExecValidation(worker[w].type, worker[w].payload) # NoValue
  /\ worker' = [worker EXCEPT ![w] =
                  Finished(w, FALSE, ExecValidation(worker[w].type, worker[w].payload))]
  /\ resp' = NoResp
  /\ UNCHANGED <<requests, tunnelConfig, appFiles, batch, acks, apiVersion, vms, upsertReq,
                 arrakis, listing, now, tasks, sending, queue, deliveries, buffer,
                 cancelReq, updReq, claimOk, executions>>

\* one request to the collaborator for the VM of the task; axios throws unless it is
\* answered 2xx
CallArrakis(w, request, ok) ==
  /\ worker[w].pc = "running"
  /\ ExecValidation(worker[w].type, worker[w].payload) = NoValue
  /\ requests' = requests \cup {request}
  /\ worker' = [worker EXCEPT ![w] = Finished(w, ok, ExecError)]
  /\ resp' = NoResp
  /\ UNCHANGED <<tunnelConfig, appFiles, batch, acks, apiVersion, vms, upsertReq, arrakis,
                 listing, now, tasks, sending, queue, deliveries, buffer, cancelReq,
                 updReq, claimOk, executions>>

\* PATCH /v1/vms/:vmName {status: 'stopped'}
StopVM(w, ok) ==
  /\ worker[w].type = "stop_vm"
  /\ CallArrakis(w, [op |-> "PATCH", vmName |-> worker[w].vmName,
                     body |-> "stopped"], ok)

\* PATCH /v1/vms/:vmName {status: 'paused'}
PauseVM(w, ok) ==
  /\ worker[w].type = "pause_vm"
  /\ CallArrakis(w, [op |-> "PATCH", vmName |-> worker[w].vmName,
                     body |-> "paused"], ok)

\* POST /v1/vms/:vmName/snapshots {snapshotId}
SnapshotVM(w, ok) ==
  /\ worker[w].type = "snapshot_vm"
  /\ CallArrakis(w, [op |-> "POST snapshots", vmName |-> worker[w].vmName,
                     body |-> worker[w].payload.snapshotId], ok)

\* POST /v1/vms/:vmName/cmd {cmd, blocking}
RunCommand(w, ok) ==
  /\ worker[w].type = "run_command"
  /\ CallArrakis(w, [op |-> "POST cmd", vmName |-> worker[w].vmName,
                     body |-> worker[w].payload.command], ok)

\* DELETE /tasks/:taskId of the consumer worker
DeleteBuffer(w) ==
  /\ worker[w].pc = "delete"
  /\ buffer' = KVDelete(buffer, BufferKey(worker[w].task))
  /\ resp' = NoResp
  /\ worker' = [worker EXCEPT ![w] = AfterTask(w)]
  /\ UNCHANGED <<requests, tunnelConfig, appFiles, batch, acks, apiVersion, vms, upsertReq,
                 arrakis, listing, now, tasks, sending, queue, deliveries, cancelReq,
                 updReq, claimOk, executions>>

\* the consumer is stopped (SIGINT, process.exit) and started again
Restart(w) ==
  /\ worker[w].pc # "idle"
  /\ worker' = [worker EXCEPT ![w] = IdleWorker]
  /\ resp' = NoResp
  /\ UNCHANGED <<requests, tunnelConfig, appFiles, batch, acks, apiVersion, vms, upsertReq,
                 arrakis, listing, now, tasks, sending, queue, deliveries, buffer,
                 cancelReq, updReq, claimOk, executions>>

\* stop(): SIGINT or SIGTERM arrives and the handler calls process.exit(0)
Stop(w) ==
  /\ worker[w].pc # "exited"
  /\ worker' = [worker EXCEPT ![w] = [IdleWorker EXCEPT !.pc = "exited"]]
  /\ resp' = NoResp
  /\ UNCHANGED <<requests, tunnelConfig, appFiles, batch, acks, apiVersion, vms, upsertReq,
                 arrakis, listing, now, tasks, sending, queue, deliveries, buffer,
                 cancelReq, updReq, claimOk, executions>>

\* POST /tasks/:taskId/claim sent by any client, with or without a consumerId, handled
\* with no other request between its get and its put
ClaimRequest(t, consumerId) ==
  LET code == ClaimAnswer(buffer, t, consumerId)
  IN /\ resp' = Resp("claim", t, code)
     /\ buffer' = IF code = 200
                  THEN KVPut(buffer, BufferKey(t),
                             Claimed(Val(buffer, BufferKey(t)), consumerId), NoTime)
                  ELSE buffer
     /\ claimOk' = IF code = 200 THEN [claimOk EXCEPT ![t] = @ \cup {consumerId}]
                   ELSE claimOk
     /\ UNCHANGED <<requests, tunnelConfig, appFiles, batch, acks, apiVersion, vms,
                    upsertReq, arrakis, listing, now, tasks, sending, queue, deliveries,
                    worker, cancelReq, updReq, executions>>

\* a producer's message for task t is in VM_TASK_QUEUE, with the time of the submission
QueueMessage(t, type, vmName, timestamp) ==
  /\ \A m \in queue : m.taskId # t
  /\ timestamp <= now
  /\ queue' = queue \cup {[taskId |-> t, type |-> type, vmName |-> vmName,
                           timestamp |-> timestamp]}
  /\ resp' = NoResp
  /\ UNCHANGED <<requests, tunnelConfig, appFiles, batch, acks, apiVersion, vms, upsertReq,
                 arrakis, listing, now, tasks, sending, deliveries, buffer, worker,
                 cancelReq, updReq, claimOk, executions>>

\* a message of another producer for task t is in VM_TASK_QUEUE: any type, with or
\* without the payload fields of snapshot_vm and run_command
QueuePayload(t, type, payload) ==
  /\ t \notin DOMAIN tasks
  /\ \A m \in queue : m.taskId # t
  /\ queue' = queue \cup {[taskId |-> t, type |-> type, vmName |-> "demo-1",
                           payload |-> payload, timestamp |-> now]}
  /\ resp' = NoResp
  /\ UNCHANGED <<requests, tunnelConfig, appFiles, batch, acks, apiVersion, vms, upsertReq,
                 arrakis, listing, now, tasks, sending, deliveries, buffer, worker,
                 cancelReq, updReq, claimOk, executions>>

\* ----------------------------------------------------------- specifications
ErrorInputs == {NoValue, ExecError}
ResultInputs == {NoResult, ExecResult("launch_vm", "demo-1")}

\* the whole system: clients create tasks and cancel the tasks they created, the queue
\* delivers, consumers poll; of the steps of a launch the last one may fail here (SpecLaunch
\* has the failure of every step)
Next ==
  \/ \E d \in {1, ExpirationTtl} : Tick(d)
  \/ \E type \in TaskTypes, vmName \in VmNames : CreateFirst(type, vmName)
  \/ \E id \in TaskIds : SendToQueue(id)
  \/ \E t \in TaskIds : CancelOwn(t)
  \/ \E t \in TaskIds : CancelWrite(t)
  \/ \E t \in TaskIds : HandleQueueMessage(t)
  \/ \E w \in Workers : Poll(w)
  \/ \E w \in Workers : ClaimRead(w)
  \/ \E w \in Workers : ClaimWrite(w)
  \/ \E w \in Workers : WorkerUpdateD1(w)
  \/ \E w \in Workers : WorkerUpsertVM(w)
  \/ \E w \in Workers : WorkerUpdateReadKV(w)
  \/ \E w \in Workers : WorkerUpdateWriteKV(w)
  \/ \E w \in Workers : WorkerUpdateFails(w)
  \/ \E w \in Workers : ExecuteStart(w)
  \/ \E w \in Workers : LaunchVM(w, TRUE)
  \/ \E w \in Workers : SetupDemoApp(w, TRUE)
  \/ \E w \in Workers, ok \in BOOLEAN : SetupTunnel(w, ok)
  \/ \E w \in Workers, ok \in BOOLEAN : DeleteVMWithCleanup(w, ok)
  \/ \E w \in Workers : DeleteBuffer(w)

Spec == Init /\ [][Next]_vars

\* the Task Store alone, under any sequence of requests of its clients
NextStore ==
  \/ \E d \in {1, ExpirationTtl} : Tick(d)
  \/ \E type \in TypeInputs, vmName \in NameInputs : CreateFirst(type, vmName)
  \/ \E id \in TaskIds : SendToQueue(id)
  \/ \E t \in TaskIds : CancelRead(t)
  \/ \E t \in TaskIds : CancelWrite(t)
  \/ \E t \in TaskIds, s \in TaskStatuses, e \in ErrorInputs, r \in ResultInputs :
       UpdateD1(t, s, e, r)
  \/ UpsertVMWrite
  \/ \E n \in VmNames : DeleteVMRecord(n)
  \/ \E t \in TaskIds, s \in TaskStatuses, e \in ErrorInputs, r \in ResultInputs :
       UpdateReadKV(t, s, e, r)
  \/ UpdateWriteKV

SpecStore == Init /\ [][NextStore]_vars

\* a vm_tasks row with this status, created at this time
ListedTask(id, status, createdAt) ==
  [NewTask(id, "launch_vm", "demo-1") EXCEPT
     !.status = status, !.createdAt = createdAt,
     !.completedAt = IF status \in {"completed", "failed"} THEN now ELSE NoTime]

\* the D1 version with up to MaxListed tasks in the table, in any statuses, created at
\* one of two times
InitList ==
  /\ apiVersion = "D1"
  /\ now = 2
  /\ \E n \in 0..MaxListed :
       \E st \in [1..n -> TaskStatuses], ct \in [1..n -> 1..2] :
         tasks = [t \in 1..n |-> ListedTask(t, st[t], ct[t])]
  /\ sending = {}
  /\ queue = {}
  /\ deliveries = [t \in TaskIds |-> 0]
  /\ buffer = {}
  /\ worker = [w \in Workers |-> IdleWorker]
  /\ cancelReq = [t \in TaskIds |-> <<>>]
  /\ updReq = <<>>
  /\ resp = NoResp
  /\ claimOk = [t \in TaskIds |-> {}]
  /\ executions = [t \in TaskIds |-> 0]
  /\ vms = <<>>
  /\ upsertReq = <<>>
  /\ arrakis = {}
  /\ listing = NoListing
  /\ tunnelConfig = InitialConfig
  /\ appFiles = {}
  /\ batch = <<>>
  /\ acks = [t \in TaskIds |-> NoAck]
  /\ requests = {}

\* GET /vm/tasks on any table, with or without a status filter
NextList ==
  \/ \E status \in TaskStatuses \cup {NoValue}, limit \in 0..MaxLimit, offset \in 0..MaxLimit :
       ListRead(status, limit, offset)
  \/ ListCount

SpecList == InitList /\ [][NextList]_vars

\* the update-status request a consumer sends for a stored task: processing, or the
\* outcome of executeTask
ReportD1(t, status) ==
  /\ t \in DOMAIN tasks
  /\ UpdateD1(t, status,
              IF status = "failed" THEN ExecError ELSE NoValue,
              IF status = "completed" THEN ExecResult(tasks[t].type, tasks[t].vmName)
              ELSE NoResult)

\* the Task Store and its VM table, for tasks that launch and delete one VM and the
\* update-status requests consumers send for them
NextVM ==
  \/ \E type \in TaskTypes, vmName \in VmNames : CreateTask(type, vmName)
  \/ \E id \in TaskIds : SendToQueue(id)
  \/ \E t \in TaskIds, s \in {"processing", "completed", "failed"} : ReportD1(t, s)
  \/ UpsertVMWrite
  \/ \E n \in VmNames : DeleteVMRecord(n)

SpecVM == Init /\ [][NextVM]_vars

\* VM names a client may launch
LaunchNames == {"demo-1", "Demo_2"}

\* the one consumer of the launch scenarios
LaunchWorkers == {1}

\* the queue delivers the message of task t, once
DeliverOnce(t) == deliveries[t] = 0 /\ HandleQueueMessage(t)

\* what the queue and the consumer do for a task, apart from the steps of executeTask
LaunchPipeline ==
  \/ \E id \in TaskIds : SendToQueue(id)
  \/ \E t \in TaskIds : DeliverOnce(t)
  \/ \E w \in LaunchWorkers : Poll(w)
  \/ \E w \in LaunchWorkers : ClaimRead(w)
  \/ \E w \in LaunchWorkers : ClaimWrite(w)
  \/ \E w \in LaunchWorkers : WorkerUpdateD1(w)
  \/ \E w \in LaunchWorkers : WorkerUpsertVM(w)
  \/ \E w \in LaunchWorkers : WorkerUpdateReadKV(w)
  \/ \E w \in LaunchWorkers : WorkerUpdateWriteKV(w)
  \/ \E w \in LaunchWorkers : ExecuteStart(w)
  \/ \E w \in LaunchWorkers : DeleteBuffer(w)

\* the three steps of a launch, every call succeeding
LaunchSteps ==
  \/ \E w \in LaunchWorkers : LaunchVM(w, TRUE)
  \/ \E w \in LaunchWorkers : SetupDemoApp(w, TRUE)
  \/ \E w \in LaunchWorkers : SetupTunnel(w, TRUE)

\* one launch_vm task, one delivery, one consumer, every call succeeds
NextLaunch ==
  \/ Tick(1)
  \/ \E vmName \in LaunchNames : CreateFirst("launch_vm", vmName)
  \/ LaunchPipeline
  \/ LaunchSteps

\* the poll loop runs again and again, every awaited call returns, the queue delivers
SpecLaunch ==
  Init /\ [][NextLaunch]_vars /\ WF_vars(LaunchPipeline) /\ WF_vars(LaunchSteps)

\* one launch_vm task, one delivery, one consumer; each step of the launch succeeds or fails
NextExec ==
  \/ Tick(1)
  \/ \E vmName \in LaunchNames : CreateFirst("launch_vm", vmName)
  \/ LaunchPipeline
  \/ \E w \in LaunchWorkers, ok \in BOOLEAN : LaunchVM(w, ok)
  \/ \E w \in LaunchWorkers, ok \in BOOLEAN : SetupDemoApp(w, ok)
  \/ \E w \in LaunchWorkers, ok \in BOOLEAN : SetupTunnel(w, ok)

SpecExec == Init /\ [][NextExec]_vars

\* the three steps of a launch and the teardown, with every outcome of their calls
ExecSteps ==
  \/ \E w \in LaunchWorkers, ok \in BOOLEAN : LaunchVM(w, ok)
  \/ \E w \in LaunchWorkers, outcome \in BootstrapOutcomes : SetupDemoAppCalls(w, outcome)
  \/ \E w \in LaunchWorkers, outcome \in TunnelOutcomes : SetupTunnelCalls(w, outcome)
  \/ \E w \in LaunchWorkers, ok \in BOOLEAN, cleanup \in CleanupOutcomes :
       DeleteVMThenCleanup(w, ok, cleanup)

\* the entries of the configurations a consumer may start with: of a VM with its own
\* address or with the address of demo-1
EntryChoices ==
  UNION {{<<n, ip>> : ip \in {StripCidr(ArrakisIp(n)), "10.20.1.2"}} : n \in TunnelNames}

\* the lines above the entries: with an ingress line, without one, with a comment before it
ConfigHeads ==
  {<<"tunnel: arrakis-vm-tunnel", "ingress:">>,
   <<"tunnel: arrakis-vm-tunnel">>,
   <<"# ingress: rules of the tunnel", "ingress:">>}

RECURSIVE EntryLines(_)
EntryLines(es) ==
  IF es = <<>> THEN <<>> ELSE NewEntry(es[1][1], es[1][2]) \o EntryLines(Tail(es))

\* a consumer starts with a configuration file of up to MaxEntries entries, whose VMs exist
InitTunnel ==
  /\ apiVersion \in ApiVersions
  /\ now = 1
  /\ tasks = <<>>
  /\ sending = {}
  /\ queue = {}
  /\ deliveries = [t \in TaskIds |-> 0]
  /\ buffer = {}
  /\ worker = [w \in Workers |-> IdleWorker]
  /\ cancelReq = [t \in TaskIds |-> <<>>]
  /\ updReq = <<>>
  /\ resp = NoResp
  /\ claimOk = [t \in TaskIds |-> {}]
  /\ executions = [t \in TaskIds |-> 0]
  /\ vms = <<>>
  /\ upsertReq = <<>>
  /\ listing = NoListing
  /\ batch = <<>>
  /\ acks = [t \in TaskIds |-> NoAck]
  /\ requests = {}
  /\ \E n \in 0..MaxEntries : \E es \in [1..n -> EntryChoices], head \in ConfigHeads :
       /\ tunnelConfig = head \o EntryLines(es) \o <<CatchAll>>
       /\ arrakis = {es[i][1] : i \in 1..n}
       /\ appFiles = {es[i][1] : i \in 1..n}

\* one task of either type for any VM name, one delivery, one consumer, any configuration
NextTunnel ==
  \/ \E type \in TaskTypes, vmName \in TunnelNames : CreateFirst(type, vmName)
  \/ LaunchPipeline
  \/ ExecSteps

SpecTunnel == InitTunnel /\ [][NextTunnel]_vars

\* VM names that sanitize to the same subdomain
ExposeNames == {"Demo_2", "demo-2"}

\* up to MaxTasks tasks of either type, each delivered once, one consumer
NextExpose ==
  \/ \E type \in TaskTypes, vmName \in ExposeNames : CreateTask(type, vmName)
  \/ LaunchPipeline
  \/ ExecSteps

SpecExpose == Init /\ [][NextExpose]_vars

\* a launch as in SpecExec, and the stop signal at any moment
NextStop ==
  \/ NextExec
  \/ \E w \in LaunchWorkers : Stop(w)

SpecStop == Init /\ [][NextStop]_vars

\* the queue consumer alone: messages are queued and delivered in batches, each put of the
\* handler succeeds or throws
NextBatch ==
  \/ Tick(1)
  \/ \E t \in TaskIds, type \in TaskTypes : QueueMessage(t, type, "demo-1", 1)
  \/ \E b \in Batches(TaskIds) : ReceiveBatch(b)
  \/ \E stored \in BOOLEAN : HandleBatchMessage(stored)

SpecBatch == Init /\ [][NextBatch]_vars

\* one consumer and one task of either type: the queue may deliver the message again, each
\* call of a step has every outcome, and an update-status request may fail
NextWorker ==
  \/ \E type \in TaskTypes, vmName \in VmNames : CreateFirst(type, vmName)
  \/ LaunchPipeline
  \/ \E t \in TaskIds : HandleQueueMessage(t)
  \/ \E w \in LaunchWorkers : WorkerUpdateFails(w)
  \/ ExecSteps

SpecWorker == Init /\ [][NextWorker]_vars

\* one task and one consumer as in SpecWorker, with one delivery and every update reaching
\* the API worker; the client may cancel the task it created
NextCancel ==
  \/ \E type \in TaskTypes, vmName \in VmNames : CreateFirst(type, vmName)
  \/ \E t \in TaskIds : CancelOwn(t)
  \/ \E t \in TaskIds : CancelWrite(t)
  \/ LaunchPipeline
  \/ ExecSteps

SpecCancel == Init /\ [][NextCancel]_vars

\* the claim handler under any requests: with and without a consumerId, on absent, ready
\* and claimed entries
ClaimConsumers == Workers \cup {NoWorker}

NextClaim ==
  \/ Tick(1)
  \/ \E t \in TaskIds, timestamp \in 1..2 : QueueMessage(t, "launch_vm", "demo-1", timestamp)
  \/ \E t \in TaskIds : HandleQueueMessage(t)
  \/ \E t \in TaskIds, consumerId \in ClaimConsumers : ClaimRequest(t, consumerId)

SpecClaim == Init /\ [][NextClaim]_vars

\* two consumers polling the same buffer for two tasks, each delivered once, with every
\* call of the execution succeeding
NextPair ==
  \/ \E type \in TaskTypes, vmName \in VmNames : CreateTask(type, vmName)
  \/ \E id \in TaskIds : SendToQueue(id)
  \/ \E t \in TaskIds : DeliverOnce(t)
  \/ \E w \in Workers : Poll(w)
  \/ \E w \in Workers : ClaimRead(w)
  \/ \E w \in Workers : ClaimWrite(w)
  \/ \E w \in Workers : WorkerUpdateD1(w)
  \/ \E w \in Workers : WorkerUpsertVM(w)
  \/ \E w \in Workers : WorkerUpdateReadKV(w)
  \/ \E w \in Workers : WorkerUpdateWriteKV(w)
  \/ \E w \in Workers : ExecuteStart(w)
  \/ \E w \in Workers : LaunchVM(w, TRUE)
  \/ \E w \in Workers : SetupDemoApp(w, TRUE)
  \/ \E w \in Workers : SetupTunnel(w, TRUE)
  \/ \E w \in Workers : DeleteVMWithCleanup(w, TRUE)
  \/ \E w \in Workers : DeleteBuffer(w)

SpecPair == Init /\ [][NextPair]_vars

\* executeTask for every type a message may carry; the API worker submits the first task,
\* another producer the later ones
DispatchTypes ==
  {"launch_vm", "delete_vm", "stop_vm", "pause_vm", "snapshot_vm", "run_command",
   "reboot_vm"}

Payloads == [snapshotId : {NoValue, "snap-1"}, command : {NoValue, "uptime"}]

NextDispatch ==
  \/ \E type \in TaskTypes, vmName \in VmNames : CreateFirst(type, vmName)
  \/ \E t \in TaskIds \ (1..MaxSubmitted), type \in DispatchTypes, payload \in Payloads :
       QueuePayload(t, type, payload)
  \/ LaunchPipeline
  \/ ExecSteps
  \/ \E w \in LaunchWorkers : ExecuteRejects(w)
  \/ \E w \in LaunchWorkers, ok \in BOOLEAN : StopVM(w, ok)
  \/ \E w \in LaunchWorkers, ok \in BOOLEAN : PauseVM(w, ok)
  \/ \E w \in LaunchWorkers, ok \in BOOLEAN : SnapshotVM(w, ok)
  \/ \E w \in LaunchWorkers, ok \in BOOLEAN : RunCommand(w, ok)

SpecDispatch == Init /\ [][NextDispatch]_vars

\* two consumers on one host, a task for each of two VMs, every call succeeding but for
\* the reads of the configuration file
HostNames == {"demo-1", "demo-2"}

NextHost ==
  \/ \E type \in TaskTypes, vmName \in HostNames : CreateTask(type, vmName)
  \/ \E id \in TaskIds : SendToQueue(id)
  \/ \E t \in TaskIds : DeliverOnce(t)
  \/ \E w \in Workers : Poll(w)
  \/ \E w \in Workers : ClaimRead(w)
  \/ \E w \in Workers : ClaimWrite(w)
  \/ \E w \in Workers : WorkerUpdateD1(w)
  \/ \E w \in Workers : WorkerUpsertVM(w)
  \/ \E w \in Workers : WorkerUpdateReadKV(w)
  \/ \E w \in Workers : WorkerUpdateWriteKV(w)
  \/ \E w \in Workers : ExecuteStart(w)
  \/ \E w \in Workers : LaunchVM(w, TRUE)
  \/ \E w \in Workers : SetupDemoApp(w, TRUE)
  \/ \E w \in Workers : SetupTunnelRead(w)
  \/ \E w \in Workers : SetupTunnelWrite(w, TRUE)
  \/ \E w \in Workers : DeleteVMCall(w, TRUE)
  \/ \E w \in Workers, ok \in BOOLEAN : CleanupTunnelRead(w, ok)
  \/ \E w \in Workers : CleanupTunnelWrite(w)
  \/ \E w \in Workers : DeleteBuffer(w)

SpecHost == Init /\ [][NextHost]_vars

\* the relay buffer alone: messages of any producer, consumers that poll and claim
NextRelay ==
  \/ \E d \in {1, ExpirationTtl} : Tick(d)
  \/ \E t \in TaskIds, timestamp \in 1..2 : QueueMessage(t, "launch_vm", "demo-1", timestamp)
  \/ \E t \in TaskIds : HandleQueueMessage(t)
  \/ \E w \in Workers : Poll(w)
  \/ \E w \in Workers : ClaimRead(w)
  \/ \E w \in Workers : ClaimWrite(w)
  \/ \E w \in Workers : Restart(w)

SpecRelay == Init /\ [][NextRelay]_vars

\* every type a client may send: the types of the documented operations, one that is no
\* operation, and none
CreateTypeInputs ==
  {"launch_vm", "delete_vm", "stop_vm", "pause_vm", "snapshot_vm", "run_command",
   "reboot_vm", NoValue}

\* the create handler alone, under any request bodies
NextCreate ==
  \/ Tick(1)
  \/ \E type \in CreateTypeInputs, vmName \in NameInputs : CreateTask(type, vmName)
  \/ \E id \in TaskIds : SendToQueue(id)

SpecCreate == Init /\ [][NextCreate]_vars

\* the create handler with both outcomes of its queue send
NextSubmit ==
  \/ NextCreate
  \/ \E id \in TaskIds : SendFails(id)

SpecSubmit == Init /\ [][NextSubmit]_vars

\* the update-status handlers and the VM table, for one task and any request bodies
NextUpdate ==
  \/ \E type \in TaskTypes, vmName \in VmNames : CreateFirst(type, vmName)
  \/ \E t \in TaskIds, s \in TaskStatuses, e \in ErrorInputs, r \in ResultInputs :
       UpdateD1(t, s, e, r)
  \/ UpsertVMWrite
  \/ \E n \in VmNames : DeleteVMRecord(n)
  \/ \E t \in TaskIds, s \in TaskStatuses, e \in ErrorInputs, r \in ResultInputs :
       UpdateReadKV(t, s, e, r)
  \/ UpdateWriteKV

SpecUpdate == Init /\ [][NextUpdate]_vars

\* ------------------------------------------------------------------ claims
\* the buffer entries of task t
EntriesOf(store, t) == {e \in store : e.val.id = t}

NoDuplicates(s) == \A i, j \in 1..Len(s) : s[i] = s[j] => i = j

\* C1: claim exclusivity.  Of the claim requests of the consumers on one ready entry
\* (written by a single delivery, so that claims of the same entry overlap when more
\* than one finds it ready) at most one returns success, and the entry names the
\* consumer that succeeded.
C1_ClaimExclusive ==
  \A t \in TaskIds :
    deliveries[t] <= 1 =>
      /\ Cardinality(claimOk[t]) <= 1
      /\ \A e \in EntriesOf(buffer, t) : e.val.status = "claimed" => claimOk[t] = {e.val.claimedBy}

\* C2: executeTask is started at most once for every task id.
C2_AtMostOneExecution == \A t \in TaskIds : executions[t] <= 1

\* C3: the stored status of a task changes only along pending -> processing,
\* processing -> completed, processing -> failed, pending -> failed; a completed or
\* failed task never changes its status and no task returns to pending.
AllowedTransitions ==
  {<<"pending", "processing">>, <<"processing", "completed">>,
   <<"processing", "failed">>, <<"pending", "failed">>}

C3_StatusMonotonic ==
  [][\A t \in DOMAIN tasks :
       tasks'[t].status # tasks[t].status =>
         <<tasks[t].status, tasks'[t].status>> \in AllowedTransitions]_vars

\* C4: when the queue delivers the message of a task again while its buffer entry is
\* claimed or processing, the handling of the message leaves the entry (status,
\* claimedBy, claimedAt) as it was.
C4_RedeliveryKeepsClaim ==
  [][\A t \in TaskIds :
       (/\ deliveries'[t] # deliveries[t]
        /\ \E e \in EntriesOf(buffer, t) : e.val.status \in {"claimed", "processing"})
       => \A e \in EntriesOf(buffer, t) :
            \E f \in EntriesOf(buffer', t) :
              /\ f.val.status = e.val.status
              /\ f.val.claimedBy = e.val.claimedBy
              /\ f.val.claimedAt = e.val.claimedAt]_vars

\* C5: idempotent buffering.  However often the message of a task is handled, the
\* buffer holds at most one entry for the task id, exactly one as long as the entry
\* of a delivered task was neither retired (a consumer deletes it only after it
\* started the task) nor expired, and the ready list never names a task id twice.
C5_OneEntryPerTask ==
  /\ \A t \in TaskIds : Cardinality(EntriesOf(buffer, t)) <= 1
  /\ \A t \in TaskIds :
       (deliveries[t] > 0 /\ executions[t] = 0 /\ now < 1 + ExpirationTtl)
         => Cardinality(EntriesOf(buffer, t)) = 1
  /\ NoDuplicates(ReadyIds(buffer))

\* C5 witness: the message was handled twice while the first entry was still in the
\* buffer (nothing was executed, no time passed), and one ready entry is there.
C5_Witness ==
  \E t \in TaskIds :
    /\ deliveries[t] = 2
    /\ executions[t] = 0
    /\ now = 1
    /\ Cardinality(EntriesOf(buffer, t)) = 1
    /\ ReadyIds(buffer) = <<t>>

\* C6: a cancel request on a pending task succeeds: when a cancel request returned
\* success the task is failed with the cancellation message and completedAt set, and a
\* cancel request is refused only for a task that is absent or not pending.
C6_CancelPending ==
  resp.op = "cancel" =>
    IF resp.code = 200
    THEN /\ tasks[resp.id].status = "failed"
         /\ tasks[resp.id].error = CancelMsg
         /\ tasks[resp.id].completedAt # NoTime
    ELSE resp.id \notin DOMAIN tasks \/ tasks[resp.id].status # "pending"

\* C6 witness: a cancel request on a pending task has returned success.
C6_Witness ==
  /\ resp = Resp("cancel", 1, 200)
  /\ tasks[1].status = "failed"
  /\ tasks[1].error = CancelMsg
  /\ tasks[1].completedAt = now

\* C7: a cancel request on a task that is processing, completed or failed is refused
\* (status code 400) and leaves the Task Store as it was; a cancel request on an
\* unknown id returns not-found (404) and creates no record.
C7_CancelRefused ==
  [][\A t \in TaskIds :
       (CancelRead(t) /\ (t \notin DOMAIN tasks \/ tasks[t].status # "pending"))
       => /\ tasks' = tasks
          /\ cancelReq' = cancelReq
          /\ resp' = Resp("cancel", t, IF t \in DOMAIN tasks THEN 400 ELSE 404)]_vars

\* C7 witness: a cancel request on a completed task that has a result was refused.
C7_Witness ==
  /\ resp = Resp("cancel", 1, 400)
  /\ 1 \in DOMAIN tasks
  /\ tasks[1].status = "completed"
  /\ tasks[1].result # NoResult
  /\ cancelReq[1] = <<>>

\* C8: cancellation is possible only before the claim.  A cancel request that arrives
\* after a consumer's claim of the task's buffer entry returned success is refused.
C8_NoCancelAfterClaim ==
  [][\A t \in TaskIds :
       (claimOk[t] # {} /\ CancelRead(t))
       => /\ cancelReq'[t] = <<>>
          /\ resp'.op = "cancel" /\ resp'.code # 200]_vars

\* C9: completedAt is absent while the status is pending or processing, set once the
\* status is completed or failed, and once set it is never changed or cleared.
C9_CompletedAtOnce ==
  [][\A t \in DOMAIN tasks :
       /\ tasks'[t].status \in {"pending", "processing"} => tasks'[t].completedAt = NoTime
       /\ tasks'[t].status \in Terminal => tasks'[t].completedAt # NoTime
       /\ tasks[t].completedAt # NoTime => tasks'[t].completedAt = tasks[t].completedAt]_vars

\* C10: an update-status request with status pending or processing for a completed or
\* failed task is refused and leaves the record as it was; an update-status request
\* that repeats the stored terminal status, error and result leaves the three unchanged.
C10_TerminalGuarded ==
  [][\A t \in DOMAIN tasks, s \in TaskStatuses, e \in ErrorInputs, r \in ResultInputs :
       /\ (/\ tasks[t].status \in Terminal
           /\ s \in {"pending", "processing"}
           /\ UpdateD1(t, s, e, r) \/ UpdateReadKV(t, s, e, r))
          => /\ tasks' = tasks
             /\ updReq' = <<>>
             /\ resp'.op = "update" /\ resp'.code # 200
       /\ (/\ tasks[t].status \in Terminal
           /\ s = tasks[t].status /\ e = tasks[t].error /\ r = tasks[t].result
           /\ \/ UpdateD1(t, s, e, r)
              \/ UpdateWriteKV /\ updReq = <<[id |-> t, status |-> s, error |-> e,
                                              result |-> r, task |-> tasks[t]]>>)
          => /\ tasks'[t].status = tasks[t].status
             /\ tasks'[t].error = tasks[t].error
             /\ tasks'[t].result = tasks[t].result]_vars

\* C11: an update-status request for an id that is not in the Task Store, with any
\* status, error and result, is answered 404, writes no task record, starts no upsert
\* and leaves the VM table as it was.
C11_UpdateUnknownId ==
  [][\A t \in TaskIds, s \in TaskStatuses, e \in ErrorInputs, r \in ResultInputs :
       (t \notin DOMAIN tasks /\ (UpdateD1(t, s, e, r) \/ UpdateReadKV(t, s, e, r)))
         => /\ tasks' = tasks
            /\ vms' = vms
            /\ upsertReq' = upsertReq
            /\ updReq' = updReq
            /\ resp' = Resp("update", t, 404)]_vars

\* an unknown id was answered 404 while the store holds another task and no VM record
C11_Witness ==
  /\ resp = Resp("update", 2, 404)
  /\ DOMAIN tasks = {1}
  /\ vms = <<>>
  /\ upsertReq = <<>> /\ updReq = <<>>

\* the types of the specified enum
SpecTaskTypes ==
  {"launch_vm", "delete_vm", "stop_vm", "pause_vm", "snapshot_vm", "run_command"}

\* C12: a create request whose type is missing or is no task type, or whose payload has
\* no VM name, is answered with a validation error (400) and changes neither the Task
\* Store nor the queue: no record is written and no message is sent or left to send.
C12_CreateRejectsInvalid ==
  [][\A type \in CreateTypeInputs, vmName \in NameInputs :
       ((type = NoValue \/ type \notin SpecTaskTypes \/ vmName = NoValue)
          /\ CreateTask(type, vmName))
         => /\ tasks' = tasks
            /\ queue' = queue
            /\ sending' = sending
            /\ resp' = Resp("create", 0, 400)]_vars

\* a create request was refused after another was accepted and sent: one record, one message
C12_Witness ==
  /\ resp = Resp("create", 0, 400)
  /\ DOMAIN tasks = {1}
  /\ Cardinality(queue) = 1
  /\ sending = {}
  /\ now = 2

\* C13: a create request with any type of the enum and a VM name is accepted: a task of
\* that type is stored with status pending and its notification is on the way to the queue.
C13_CreateAcceptsEnum ==
  [][\A type \in SpecTaskTypes, vmName \in VmNames :
       CreateTask(type, vmName)
         => /\ DOMAIN tasks' = DOMAIN tasks \cup {NextId}
            /\ tasks'[NextId].type = type
            /\ tasks'[NextId].status = "pending"
            /\ NextId \in sending']_vars

\* C14: no entry of the ready list has been in the buffer for the TTL or longer: a ready
\* entry that was not rewritten for ExpirationTtl seconds is in no ready list.
C14_TtlExpiry ==
  LET r == ReadyTasks(buffer)
  IN \A i \in 1..Len(r) : now < r[i].receivedAt + ExpirationTtl

\* a delivered entry that nobody claimed is gone once the TTL has passed
C14_Witness ==
  \E t \in TaskIds :
    /\ deliveries[t] > 0
    /\ claimOk[t] = {}
    /\ now >= 1 + ExpirationTtl
    /\ EntriesOf(buffer, t) = {}
    /\ t \notin {ReadyIds(buffer)[i] : i \in 1..Len(ReadyIds(buffer))}

\* C15: the ready list holds exactly the buffer entries with status ready, each once, in
\* the order of their receivedAt, oldest first.
C15_ReadyListOrder ==
  LET r == ReadyTasks(buffer)
      ready == {e.val.id : e \in {x \in buffer : x.val.status = "ready"}}
  IN /\ {r[i].id : i \in 1..Len(r)} = ready
     /\ Len(r) = Cardinality(ready)
     /\ \A i, j \in 1..Len(r) : i < j => r[i].receivedAt <= r[j].receivedAt

\* C16: the response to a list request with filter status = s has only tasks of status
\* s, newest created first, at most limit of them, which are the ones from position
\* offset + 1 on of the filtered tasks in that order, and a total count that is the number
\* of all tasks of status s, whatever limit and offset are.
C16_ListByStatus ==
  (listing.done /\ listing.status \in TaskStatuses) =>
    LET page == listing.tasks
        M == {t \in DOMAIN tasks : tasks[t].status = listing.status}
        inPage == {page[i].id : i \in 1..Len(page)}
        rest == Cardinality(M) - listing.offset
    IN /\ \A i \in 1..Len(page) : page[i].status = listing.status /\ page[i].id \in M
       /\ \A i, j \in 1..Len(page) : i < j => page[i].createdAt >= page[j].createdAt
       /\ Cardinality(inPage) = Len(page)
       /\ Len(page) = IF rest <= 0 THEN 0 ELSE IF rest < listing.limit THEN rest
                                                ELSE listing.limit
       /\ Len(page) > 0 =>
            /\ Cardinality({t \in M : tasks[t].createdAt > page[1].createdAt})
                 <= listing.offset
            /\ Cardinality({t \in M \ inPage : tasks[t].createdAt >= page[1].createdAt})
                 >= listing.offset
            /\ \A t \in M \ inPage :
                 \/ tasks[t].createdAt >= page[1].createdAt
                 \/ tasks[t].createdAt <= page[Len(page)].createdAt
       /\ listing.totalCount = Cardinality(M)

\* a page of one failed task at offset 1 out of two failed tasks, in a table that also has
\* a task of another status
C16_Witness ==
  /\ listing.done
  /\ listing.status = "failed" /\ listing.limit = 1 /\ listing.offset = 1
  /\ Len(listing.tasks) = 1
  /\ listing.totalCount = 2
  /\ Cardinality(DOMAIN tasks) = 3
  /\ \E t \in DOMAIN tasks : tasks[t].createdAt > listing.tasks[1].createdAt
                                /\ tasks[t].status = "failed"

\* task t is a completed launch_vm task whose result names VM n
LaunchedBy(db, t, n) ==
  /\ db[t].type = "launch_vm"
  /\ db[t].status = "completed"
  /\ db[t].result.vmName = n
  /\ db[t].result.subdomain # NoValue

\* C17: a VM record is written only when some launch_vm task is completed with a result
\* that has a subdomain and names that VM, and every VM record of the table has such a task.
C17_VmFromCompletedLaunch ==
  [][\A n \in DOMAIN vms' : \E t \in DOMAIN tasks' : LaunchedBy(tasks', t, n)]_vars

\* C18: when the update-status request that completes a delete_vm task for a VM has been
\* answered, the VM table has no record of that VM.
C18_DeleteRemovesVm ==
  (/\ resp.op = "update" /\ resp.code = 200
   /\ tasks[resp.id].type = "delete_vm"
   /\ tasks[resp.id].status = "completed")
    => tasks[resp.id].vmName \notin DOMAIN vms

\* the launch of task t has ended well: completed, with the VM's ip, the subdomain and the
\* URL that is https:// followed by the subdomain in the stored result, and no buffer entry
LaunchDone(t) ==
  /\ t \in DOMAIN tasks
  /\ tasks[t].status = "completed"
  /\ tasks[t].result.ip = StripCidr(ArrakisIp(tasks[t].vmName))
  /\ tasks[t].result.subdomain # NoValue
  /\ tasks[t].result.demoUrl = "https://" \o tasks[t].result.subdomain
  /\ EntriesOf(buffer, t) = {}

\* C19: with one delivery, one consumer and every call succeeding, under fair scheduling a
\* submitted launch_vm task changes its status only from pending to processing and from
\* processing to completed, and it ends completed with ip, subdomain and URL in the result
\* and without a buffer entry.
C19_LaunchEndToEnd ==
  /\ [][\A t \in DOMAIN tasks :
          tasks'[t].status # tasks[t].status =>
            <<tasks[t].status, tasks'[t].status>> \in
              {<<"pending", "processing">>, <<"processing", "completed">>}]_vars
  /\ \A t \in TaskIds : (t \in DOMAIN tasks) ~> LaunchDone(t)

\* the launch of Demo_2 has ended: URL of the sanitized name, address without a CIDR suffix
C19_Witness ==
  /\ LaunchDone(1)
  /\ tasks[1].vmName = "Demo_2"
  /\ tasks[1].result.demoUrl = "https://demo-2.sandbox.puku.sh"
  /\ tasks[1].result.ip = "10.20.1.3"
  /\ "Demo_2" \in arrakis
  /\ worker[1].pc = "idle"

\* C20: no VM is ever deleted at the VM-control service in the course of a launch_vm task,
\* and when the launch step succeeded (the VM exists) and a later step failed, the
\* consumer's report stores status failed with the message of the error that step raised.
C20_PartialFailure ==
  [][/\ arrakis \subseteq arrakis'
     /\ \A w \in LaunchWorkers :
          (worker[w].pc \in {"bootstrap", "expose"} /\ worker'[w].pc = "report"
             /\ ~worker'[w].ok)
            => worker'[w].error =
                 IF worker[w].pc = "bootstrap" THEN ExecError
                 ELSE IF FindIngress(tunnelConfig) = 0 THEN TunnelError
                 ELSE RestartError
     /\ \A w \in LaunchWorkers :
          (worker[w].pc = "report" /\ ~worker[w].ok /\ worker[w].vmName \in arrakis
             /\ worker'[w].pc = "delete")
            => /\ tasks'[worker[w].task].status = "failed"
               /\ tasks'[worker[w].task].error = worker[w].error
               /\ worker[w].vmName \in arrakis']_vars

\* the expose step failed: the task is failed with the error of the restart, its VM still
\* exists, the consumer is done with it
C20_Witness ==
  /\ 1 \in DOMAIN tasks
  /\ tasks[1].status = "failed"
  /\ tasks[1].error = RestartError
  /\ tasks[1].vmName \in arrakis
  /\ EntriesOf(buffer, 1) = {}
  /\ worker[1].pc = "idle"

\* the indexes of the hostname lines of vmName's subdomain in a configuration
HostnameIndexes(lines, vmName) ==
  {i \in 1..Len(lines) : lines[i] = HostnameLine(Subdomain(vmName))}

\* C21: when the VM-control delete of a delete_vm task succeeds, executeTask returns a result
\* whatever the calls of the tunnel cleanup do, and the consumer's report stores status
\* completed; when the cleanup read and wrote the configuration, no hostname line of the
\* VM's subdomain is left in it.
C21_TeardownTolerant ==
  [][\A w \in LaunchWorkers :
       /\ \A cleanup \in CleanupOutcomes :
            DeleteVMThenCleanup(w, TRUE, cleanup) =>
              /\ worker'[w].pc = "report"
              /\ worker'[w].ok
              /\ cleanup # "fileFails" =>
                   HostnameIndexes(tunnelConfig', worker[w].vmName) = {}
       /\ (worker[w].type = "delete_vm" /\ worker[w].pc = "report" /\ worker[w].ok
             /\ worker'[w].pc = "delete")
            => tasks'[worker[w].task].status = "completed"]_vars

\* Demo_2 was launched and exposed by task 1 and torn down by task 2: both tasks are
\* completed, the VM is gone and the configuration is the initial one again
C21_Witness ==
  /\ DOMAIN tasks = {1, 2}
  /\ tasks[1].type = "launch_vm" /\ tasks[1].vmName = "Demo_2"
  /\ tasks[1].status = "completed"
  /\ tasks[2].type = "delete_vm" /\ tasks[2].vmName = "Demo_2"
  /\ tasks[2].status = "completed"
  /\ tasks[2].result.status = "deleted"
  /\ tunnelConfig = InitialConfig
  /\ "Demo_2" \notin arrakis
  /\ buffer = {}

\* C22: the consumer process exits on the stop signal only when it holds no task, that is,
\* not between the successful claim of a task and the deletion of its buffer entry, and
\* a consumer that has exited takes no further step.
C22_StopAfterInFlight ==
  [][\A w \in LaunchWorkers :
       /\ (worker[w].pc # "exited" /\ worker'[w].pc = "exited") => worker[w].task = 0
       /\ worker[w].pc = "exited" => worker'[w] = worker[w]]_vars

\* C23: the handler acknowledges a message only when it has written the message's buffer
\* entry in the same pass; when the write fails it writes nothing and asks the queue to
\* retry the message after RetryDelay seconds; either way it goes on with the rest of the
\* batch, which stays as delivered.
C23_AckAfterWrite ==
  [][/\ batch' # batch => (batch = <<>> \/ batch' = Tail(batch))
     /\ \A t \in TaskIds :
          deliveries'[t] # deliveries[t] =>
            /\ batch # <<>> /\ Head(batch) = t /\ batch' = Tail(batch)
            /\ \A u \in TaskIds \ {t} : acks'[u] = acks[u]
            /\ \/ /\ acks'[t] = Ack
                  /\ \E e \in buffer' :
                       /\ e.val.id = t /\ e.val.status = "ready" /\ e.val.receivedAt = now
                       /\ e.exp = now + ExpirationTtl
               \/ /\ acks'[t] = Retry
                  /\ buffer' = buffer]_vars

\* a batch of two messages is done: the write for task 1 failed and its message is to be
\* retried, the message of task 2 was handled after it, written and acknowledged
C23_Witness ==
  /\ batch = <<>>
  /\ deliveries = [t \in TaskIds |-> 1]
  /\ acks[1] = Retry
  /\ acks[2] = Ack
  /\ EntriesOf(buffer, 1) = {}
  /\ EntriesOf(buffer, 2) # {}

\* C24: for every task a consumer handles, the claim, the Task Store update to processing,
\* the dispatch to executeTask, the Task Store update to completed or failed and the
\* deletion of the buffer entry happen in this order and each at most once; the consumer
\* takes the tasks of one poll in the order of the ready list and goes to the next one only
\* from the deletion of the one before (or from a claim that was refused).
C24_WorkerStepOrder ==
  [][\A w \in LaunchWorkers :
       LET pc == worker[w].pc
           pc2 == worker'[w].pc
           t == worker[w].task
       IN /\ (pc = "claimWrite" /\ pc2 = "claimed") => w \notin claimOk[worker'[w].task]
          /\ pc2 = "claimed" => pc \in {"claimWrite", "claimed"}
          /\ pc2 = "exec" => pc \in {"claimed", "exec"}
          /\ (pc = "claimed" /\ pc2 = "exec") => tasks'[t].status = "processing"
          /\ pc2 = "running" => pc \in {"exec", "running"}
          /\ (pc = "exec" /\ pc2 = "running") => executions[t] = 0
          /\ pc2 = "report" => pc \in {"running", "bootstrap", "expose", "report"}
          /\ pc2 = "delete" => pc \in {"report", "upsert", "delete"}
          /\ (pc \in {"report", "upsert"} /\ pc2 = "delete") => tasks'[t].status \in Terminal
          /\ worker'[w].todo # worker[w].todo =>
               \/ pc = "idle" /\ worker'[w].todo = ReadyIds(buffer)
               \/ pc \in {"loop", "delete"} /\ worker'[w].todo = Tail(worker[w].todo)
          /\ (pc2 = "claimWrite" /\ pc # "claimWrite") =>
               pc = "loop" /\ worker'[w].entry[1].id = Head(worker[w].todo)]_vars

\* C25: whenever a consumer deletes the buffer entry of a task, the Task Store holds status
\* completed or failed for that task.
C25_RetiredAfterTerminal ==
  [][\A w \in LaunchWorkers :
       (worker[w].pc = "delete" /\ worker'[w].pc # "delete")
         => /\ worker[w].task \in DOMAIN tasks
            /\ tasks[worker[w].task].status \in Terminal]_vars

\* C26: the bootstrap step is entered only from a launch call that succeeded (the VM exists)
\* and the expose step only from a bootstrap step that returned; the demo app's file is
\* pushed only by the bootstrap step and the tunnel configuration is written only by the
\* expose step or by a teardown; a failed launch call pushes and writes nothing, and
\* nothing is pushed or written for the task after it.
C26_ProvisioningOrder ==
  [][\A w \in LaunchWorkers :
       LET pc == worker[w].pc
           pc2 == worker'[w].pc
       IN /\ (pc2 = "bootstrap" /\ pc # "bootstrap") =>
               /\ pc = "running" /\ worker[w].type = "launch_vm"
               /\ worker[w].vmName \in arrakis'
          /\ (pc2 = "expose" /\ pc # "expose") => pc = "bootstrap"
          /\ appFiles' \ appFiles # {} =>
               pc = "bootstrap" /\ appFiles' = appFiles \cup {worker[w].vmName}
          /\ tunnelConfig' # tunnelConfig =>
               \/ pc = "expose"
               \/ pc = "running" /\ worker[w].type = "delete_vm"
          /\ (pc = "running" /\ worker[w].type = "launch_vm" /\ pc2 = "report") =>
               /\ ~worker'[w].ok
               /\ appFiles' = appFiles /\ tunnelConfig' = tunnelConfig
          /\ pc \in {"report", "upsert", "delete"} =>
               appFiles' = appFiles /\ tunnelConfig' = tunnelConfig]_vars

\* the consumer is about to expose demo-2: the VM was launched and holds the app's file,
\* the configuration is still the one the consumer started with
C26_Witness ==
  /\ worker[1].pc = "expose"
  /\ worker[1].vmName = "demo-2"
  /\ executions[1] = 1
  /\ arrakis = {"demo-2"}
  /\ appFiles = {"demo-2"}
  /\ tunnelConfig = InitialConfig

\* C27: when the probe at the end of the bootstrap step does not confirm the marker, because
\* its output lacks the marker or because the probe call fails, the workflow goes on to
\* the expose step.
C27_SoftProbe ==
  [][\A w \in LaunchWorkers, outcome \in {"noMarker", "probeFails"} :
       SetupDemoAppCalls(w, outcome) => worker'[w].pc = "expose"]_vars

\* the indexes of the lines of a configuration that contain 'ingress:'
MarkerIndexes(lines) == {k \in 1..Len(lines) : lines[k] \in MarkerLines}

\* C28: when the configuration read by the expose step has an ingress line, the written
\* configuration has the hostname line and the service line of the new VM right after the
\* first ingress line, in this order, and every line of the old configuration before or
\* after them, unchanged and in the old order; without an ingress line the step fails with
\* the error of the missing section and the configuration stays as it was.
C28_ExposeInsertsEntry ==
  [][\A w \in LaunchWorkers, outcome \in {"restartFails", "ok"} :
       SetupTunnelCalls(w, outcome) =>
         LET old == tunnelConfig
             new == tunnelConfig'
             vmName == worker[w].vmName
         IN IF MarkerIndexes(old) = {}
            THEN /\ new = old
                 /\ ~worker'[w].ok
                 /\ worker'[w].error = TunnelError
            ELSE LET i == CHOOSE k \in MarkerIndexes(old) :
                            \A j \in MarkerIndexes(old) : k <= j
                 IN /\ Len(new) = Len(old) + 2
                    /\ new[i + 1] = "  - hostname: " \o Subdomain(vmName)
                    /\ new[i + 2] =
                         "    service: http://" \o StripCidr(ArrakisIp(vmName)) \o ":3000"
                    /\ \A k \in 1..i : new[k] = old[k]
                    /\ \A k \in (i + 1)..Len(old) : new[k + 2] = old[k]]_vars

\* demo-1 was exposed in a configuration that had the entry of Demo_2: its two lines stand
\* between the ingress line and the entry of Demo_2, the catch-all rule is last
C28_Witness ==
  /\ worker[1].pc = "report"
  /\ worker[1].ok
  /\ worker[1].type = "launch_vm"
  /\ worker[1].vmName = "demo-1"
  /\ tunnelConfig = <<"tunnel: arrakis-vm-tunnel", "ingress:",
                      "  - hostname: demo-1.sandbox.puku.sh",
                      "    service: http://10.20.1.2:3000",
                      "  - hostname: demo-2.sandbox.puku.sh",
                      "    service: http://10.20.1.3:3000",
                      "  - service: http_status:404">>

\* the configuration without the entries of vmName: its hostname lines and the service line
\* that follows each of them
WithoutEntry(lines, vmName) ==
  LET gone == UNION {{i, i + 1} : i \in HostnameIndexes(lines, vmName)}
      Left(k) == Cardinality({j \in 1..k : j \notin gone})
      kept == {k \in 1..Len(lines) : k \notin gone}
  IN [n \in 1..Cardinality(kept) |-> lines[CHOOSE k \in kept : Left(k) = n]]

\* C29: the configuration written by the cleanup of a VM is the old one without the hostname
\* line and the service line of that VM's entry; every other line is kept.
C29_TeardownRemovesOnlyTarget ==
  [][\A w \in LaunchWorkers, cleanup \in CleanupOutcomes \ {"fileFails"} :
       DeleteVMThenCleanup(w, TRUE, cleanup) =>
         tunnelConfig' = WithoutEntry(tunnelConfig, worker[w].vmName)]_vars

\* C30: the tunnel configuration has at most one hostname line per hostname.
C30_OneEntryPerHostname ==
  \A n \in TunnelNames : Cardinality(HostnameIndexes(tunnelConfig, n)) <= 1

\* C34: in the Task Store a task has an error only when its status is failed and a result
\* only when its status is completed.
C34_ErrorResultPresence ==
  \A t \in DOMAIN tasks :
    /\ tasks[t].error # NoValue => tasks[t].status = "failed"
    /\ tasks[t].result # NoResult => tasks[t].status = "completed"

\* the Task Store holds task t as cancelled
Cancelled(db, t) ==
  t \in DOMAIN db /\ db[t].status = "failed" /\ db[t].error = CancelMsg

\* C37: a task that the Task Store holds as cancelled stays so, and no consumer enters
\* executeTask for it.
C37_CancelledNeverExecuted ==
  [][\A t \in TaskIds :
       Cancelled(tasks, t) => Cancelled(tasks', t) /\ executions'[t] = executions[t]]_vars

\* C36: no entry is in the buffer once ExpirationTtl seconds have passed since it was
\* received, whatever its status.
C36_TtlUnconditional ==
  \A e \in buffer : now < e.val.receivedAt + ExpirationTtl

\* the status of task t's buffer entry, "removed" when the buffer has none
BufferStatus(store, t) ==
  IF EntriesOf(store, t) = {}
  THEN "removed"
  ELSE (CHOOSE e \in EntriesOf(store, t) : TRUE).val.status

BufferTransitions ==
  {<<"removed", "ready">>, <<"ready", "claimed">>, <<"claimed", "processing">>,
   <<"processing", "removed">>}

\* C35: a buffer entry's status changes only along ready -> claimed -> processing -> removed,
\* and when executeTask is entered for a task its entry has status processing.
C35_BufferStateMachine ==
  [][\A t \in TaskIds :
       /\ \/ BufferStatus(buffer', t) = BufferStatus(buffer, t)
          \/ <<BufferStatus(buffer, t), BufferStatus(buffer', t)>> \in BufferTransitions
       /\ executions'[t] # executions[t] => BufferStatus(buffer', t) = "processing"]_vars

\* C38: every task record of the Task Store either belongs to a create request that is
\* still being handled or has had its message sent to the queue; so a create request that
\* was answered with an error has left no record.
C38_SubmissionAllOrNothing ==
  \A t \in DOMAIN tasks : t \in sending \/ \E m \in queue : m.taskId = t

\* C33: a claim request that names a consumer is answered 409 when the entry is not ready
\* and 404 when there is no entry, a claim request without a consumer id is answered 400,
\* and in all three cases the buffer is left as it was.
C33_FailedClaimNoEffect ==
  [][\A t \in TaskIds, consumerId \in ClaimConsumers :
       ClaimRequest(t, consumerId) =>
         /\ (consumerId # NoWorker /\ \E e \in EntriesOf(buffer, t) : e.val.status # "ready")
              => resp'.code = 409 /\ buffer' = buffer
         /\ (consumerId # NoWorker /\ EntriesOf(buffer, t) = {})
              => resp'.code = 404 /\ buffer' = buffer
         /\ consumerId = NoWorker => resp'.code = 400 /\ buffer' = buffer]_vars

C33_Witness ==
  \E t \in TaskIds :
    /\ resp = Resp("claim", t, 409)
    /\ Cardinality(claimOk[t]) = 1
    /\ \E e \in EntriesOf(buffer, t) : e.val.status = "claimed" /\ e.val.claimedBy \in claimOk[t]

\* C39: a consumer works on a task (reports a status for it, enters executeTask, deletes
\* its buffer entry) only after its own claim of that task succeeded, and a consumer whose
\* claim is refused changes neither the Task Store nor the buffer nor anything the
\* execution touches, and goes on with the rest of its list.
C39_ExecutesOnlyClaimed ==
  [][\A w \in Workers :
       /\ worker'[w].task # 0 => w \in claimOk'[worker'[w].task]
       /\ (ClaimRead(w) /\ ClaimAnswer(buffer, Head(worker[w].todo), w) # 200) =>
            /\ UNCHANGED <<tasks, buffer, vms, arrakis, appFiles, tunnelConfig, executions>>
            /\ worker'[w].task = 0
            /\ worker'[w].todo = Tail(worker[w].todo)
            /\ worker'[w].pc = IF Tail(worker[w].todo) = <<>> THEN "idle" ELSE "loop"]_vars

C39_Witness ==
  \E t \in TaskIds, w, v \in Workers :
    /\ resp = Resp("claim", t, 409)
    /\ claimOk[t] = {v}
    /\ worker[v].task = t
    /\ w # v
    /\ worker[w].pc = "loop"
    /\ worker[w].task = 0

\* the configurations a host may have before an expose step
RoundTripConfigs ==
  {head \o EntryLines(es) \o <<CatchAll>> :
     head \in ConfigHeads, es \in UNION {[1..n -> EntryChoices] : n \in 0..MaxEntries}}

\* C40: when the configuration is what the expose step for VM v made of a configuration
\* c0 that has an ingress marker and no line with v's subdomain, the cleanup step for v
\* gives back c0.
C40_ExposeTeardownRoundTrip ==
  [][\A w \in LaunchWorkers, cleanup \in CleanupOutcomes \ {"fileFails"} :
       DeleteVMThenCleanup(w, TRUE, cleanup) =>
         LET vmName == worker[w].vmName
         IN \A c0 \in RoundTripConfigs :
              (/\ MarkerIndexes(c0) # {}
               /\ \A k \in 1..Len(c0) : ~IncludesSubdomain(c0[k], vmName)
               /\ tunnelConfig = SetupTunnelConfig(c0, vmName, StripCidr(ArrakisIp(vmName))))
              => tunnelConfig' = c0]_vars

C31_ConfigEditsSerialized ==
  \A t \in DOMAIN tasks :
    (/\ tasks[t].type = "launch_vm"
     /\ tasks[t].status = "completed"
     /\ \A u \in DOMAIN tasks :
          tasks[u].type = "delete_vm" => tasks[u].vmName # tasks[t].vmName)
    => HostnameIndexes(tunnelConfig, tasks[t].vmName) # {}

====
